---- MODULE Spec2Model ----
(***************************************************************************)
(* Fantasy projections engine: the feature-construction, training and      *)
(* inference pipeline of src/lambda_functions, as a state machine.         *)
(*                                                                         *)
(* Number representation (exact fixed point, no floats):                   *)
(*   Fantasy_Points, Current_Points   whole points                         *)
(*   weighted_current_points          tenths of a point   (points * 0.8)   *)
(*   age_factor                       hundredths                           *)
(*   experience_factor                tenths                               *)
(*   raw model prediction             tenths of a point                    *)
(*   variance multiplier              thousandths                          *)
(*   adjusted prediction              1/10000 of a point                   *)
(*   Predicted_Next_Year, Confidence  tenths          (after .round(1))    *)
(*   Percent_Change                   [kind, tenths]: kind "finite" with   *)
(*                                    tenths of a percent, or one of the   *)
(*                                    IEEE specials "inf", "-inf", "nan"   *)
(***************************************************************************)
EXTENDS Integers, Sequences, FiniteSets, TLC

VARIABLES
    pc,                 \* which operation the run exercises and how far it got
    rng,                \* state of numpy's global random generator
    historical_data,    \* argument of prepare_training_data
    X, y, player_info,  \* what prepare_training_data returns
    current_year_data,  \* argument of make_predictions
    model, top_n,       \* arguments of make_predictions
    current_year,       \* datetime.now().year as read by the running operation
    X_pred,             \* what prepare_prediction_features returns (features)
    predictions,        \* make_predictions' array of variance-adjusted predictions
    results_df,         \* the frame make_predictions builds, before sort/head
    results,            \* what make_predictions returns
    environ,            \* os.environ as the handlers read it
    data_bucket,        \* objects of the bucket S3_BUCKET names, by key
    event,              \* the event a handler is invoked with
    context,            \* the context object a handler is invoked with
    s3_call_ok,         \* whether the handler's call to the store went through
    predictions_df,     \* the frame the predictor handler builds its reply from
    response,           \* what the handler returns
    model_bucket,       \* objects of the bucket MODEL_BUCKET names, by key
    clock,              \* datetime.now() in whole seconds
    run,                \* the trainer invocations: position, locals, response
    loaded,             \* what load_latest_model returns: (model, reference)
    analyzer_predictions_df,  \* the prediction frame handed to the aggregator
    historical_df,      \* the frame of season records handed to the aggregator
    analysis_results    \* what the aggregator's three functions return

trainingVars == <<historical_data, X, y, player_info>>
predictionVars ==
    <<current_year_data, model, top_n, X_pred, predictions, results_df, results>>
queryVars ==
    <<environ, data_bucket, event, context, s3_call_ok, predictions_df, response>>
storeVars == <<model_bucket, clock, run>>
loadVars == <<loaded>>
analysisVars == <<analyzer_predictions_df, historical_df, analysis_results>>
vars ==
    <<pc, rng, current_year, trainingVars, predictionVars, queryVars, storeVars, loadVars,
      analysisVars>>

-----------------------------------------------------------------------------
(* Bounds of the model *)

\* Longest input collection (rows of a frame) the model feeds to an operation.
MaxRecords == 3

\* Seconds the clock advances over while trainer invocations are observed.
MaxClock == 2

\* The random generator hands out variates u/Resolution in [0, 1).
Variates == 0..9
Resolution == Cardinality(Variates)

\* The generator is modelled with a short period: rng.seq repeats.
RngStreams == {<<a, b>> : a \in {0, 4, 9}, b \in {0, 4, 9}}

-----------------------------------------------------------------------------
(* Arithmetic helpers *)

Max(a, b) == IF a >= b THEN a ELSE b
Min(a, b) == IF a <= b THEN a ELSE b
Abs(a) == IF a >= 0 THEN a ELSE -a

\* All sequences over S of length at most n.
SeqUpTo(S, n) == UNION {[1..k -> S] : k \in 0..n}

\* All orderings (as sequences) of the finite set S.
RECURSIVE Perms(_)
Perms(S) ==
    IF S = {} THEN {<<>>}
    ELSE UNION {{Append(p, x) : p \in Perms(S \ {x})} : x \in S}

-----------------------------------------------------------------------------
(* IEEE-754 binary64 arithmetic (Python float, numpy float64) *)

\* A natural number of any size: its digits in base Limb, least significant
\* first, no leading zero digit; zero is the empty sequence.
Limb == 2 ^ 15

RECURSIVE BitLen(_)
BitLen(n) == IF n = 0 THEN 0 ELSE 1 + BitLen(n \div 2)

LimbBits == BitLen(Limb) - 1

RECURSIVE BNorm(_)
BNorm(a) ==
    IF a = <<>> THEN <<>>
    ELSE IF a[Len(a)] = 0 THEN BNorm(SubSeq(a, 1, Len(a) - 1)) ELSE a

RECURSIVE BOf(_)
BOf(n) == IF n = 0 THEN <<>> ELSE <<n % Limb>> \o BOf(n \div Limb)

RECURSIVE BInt(_)
BInt(a) == IF a = <<>> THEN 0 ELSE a[1] + Limb * BInt(Tail(a))

RECURSIVE BCmpFrom(_, _, _)
BCmpFrom(a, b, i) ==
    IF i = 0 THEN 0
    ELSE IF a[i] > b[i] THEN 1
    ELSE IF a[i] < b[i] THEN -1
    ELSE BCmpFrom(a, b, i - 1)

\* -1, 0 or 1 as a is below, equal to or above b.
BCmp(a, b) ==
    IF Len(a) > Len(b) THEN 1
    ELSE IF Len(a) < Len(b) THEN -1
    ELSE BCmpFrom(a, b, Len(a))

RECURSIVE BAddC(_, _, _)
BAddC(a, b, c) ==
    IF a = <<>> /\ b = <<>> THEN (IF c = 0 THEN <<>> ELSE <<c>>)
    ELSE LET s == (IF a = <<>> THEN 0 ELSE a[1]) + (IF b = <<>> THEN 0 ELSE b[1]) + c
         IN  <<s % Limb>> \o BAddC(IF a = <<>> THEN a ELSE Tail(a),
                                   IF b = <<>> THEN b ELSE Tail(b), s \div Limb)

BAdd(a, b) == BAddC(a, b, 0)

RECURSIVE BSubC(_, _, _)
BSubC(a, b, c) ==
    IF a = <<>> THEN <<>>
    ELSE LET d == a[1] - (IF b = <<>> THEN 0 ELSE b[1]) - c
         IN  <<d % Limb>> \o BSubC(Tail(a), IF b = <<>> THEN b ELSE Tail(b),
                                   IF d < 0 THEN 1 ELSE 0)

\* a - b, for a >= b.
BSub(a, b) == BNorm(BSubC(a, b, 0))

RECURSIVE BMulSmallC(_, _, _)
BMulSmallC(a, k, c) ==
    IF a = <<>> THEN (IF c = 0 THEN <<>> ELSE <<c>>)
    ELSE LET p == a[1] * k + c
         IN  <<p % Limb>> \o BMulSmallC(Tail(a), k, p \div Limb)

\* a * k, for k below Limb.
BMulSmall(a, k) == IF k = 0 THEN <<>> ELSE BMulSmallC(a, k, 0)

RECURSIVE BMul(_, _)
BMul(a, b) ==
    IF a = <<>> \/ b = <<>> THEN <<>>
    ELSE BAdd(BMulSmall(a, b[1]),
              LET rest == BMul(a, Tail(b))
              IN  IF rest = <<>> THEN <<>> ELSE <<0>> \o rest)

\* a * 2^n.
BShl(a, n) ==
    IF a = <<>> THEN <<>>
    ELSE [i \in 1..(n \div LimbBits) |-> 0] \o BMulSmall(a, 2 ^ (n % LimbBits))

RECURSIVE BDivSmallFrom(_, _, _, _)
BDivSmallFrom(a, k, i, r) ==
    IF i = 0 THEN <<>>
    ELSE LET n == r * Limb + a[i]
         IN  BDivSmallFrom(a, k, i - 1, n % k) \o <<n \div k>>

\* a \div k, for k from 1 to Limb.
BDivSmall(a, k) == BNorm(BDivSmallFrom(a, k, Len(a), 0))

\* a \div 2^n.
BShr(a, n) ==
    IF n \div LimbBits >= Len(a) THEN <<>>
    ELSE BDivSmall(SubSeq(a, n \div LimbBits + 1, Len(a)), 2 ^ (n % LimbBits))

\* The number of binary digits of a.
BBitLen(a) == IF a = <<>> THEN 0 ELSE LimbBits * (Len(a) - 1) + BitLen(a[Len(a)])

BOdd(a) == a # <<>> /\ a[1] % 2 = 1

\* -1, 0 or 1 as a - q * 2^n is below, equal to or above half of 2^n (n > 0).
BHalfCmp(a, q, n) == BCmp(BSub(a, BShl(q, n)), BShl(<<1>>, n - 1))

\* A finite double: sign * mant * 2^exp, mant of exactly Precision binary
\* digits; zero has sign 0.
Precision == 53
Zero == [sign |-> 0, mant |-> <<>>, exp |-> 0]

\* The double nearest sign * N * 2^e, ties to the even mantissa.  inexact says
\* that the exact value lies strictly above N * 2^e (a division's remainder).
\* Whether the nearest value is the one above: c is BHalfCmp of what is cut
\* off, tie_up the choice when exactly half is.
rounds_up(c, tie_up) == c > 0 \/ (c = 0 /\ tie_up)

\* sign * m * 2^e for m of Precision digits, or of one more after a carry.
float_carry(sign, m, e) ==
    IF BBitLen(m) > Precision
    THEN [sign |-> sign, mant |-> BShr(m, 1), exp |-> e + 1]
    ELSE [sign |-> sign, mant |-> m, exp |-> e]

\* N of t digits too many, q its leading Precision digits.
float_nearest(sign, N, e, inexact, t, q) ==
    float_carry(sign,
                IF rounds_up(BHalfCmp(N, q, t), inexact \/ BOdd(q))
                THEN BAdd(q, <<1>>) ELSE q,
                e + t)

float_excess(sign, N, e, inexact, t) ==
    IF t <= 0 THEN [sign |-> sign, mant |-> BShl(N, -t), exp |-> e + t]
    ELSE float_nearest(sign, N, e, inexact, t, BShr(N, t))

float_round(sign, N, e, inexact) ==
    IF N = <<>> \/ sign = 0 THEN Zero
    ELSE float_excess(sign, N, e, inexact, BBitLen(N) - Precision)

\* float(n) of an integer n.
float(n) == float_round(IF n > 0 THEN 1 ELSE IF n < 0 THEN -1 ELSE 0, BOf(Abs(n)), 0, FALSE)

float_neg(a) == [a EXCEPT !.sign = -a.sign]

\* -1, 0 or 1 as a is below, equal to or above b.
float_cmp(a, b) ==
    LET magnitude ==
            IF a.exp > b.exp THEN 1
            ELSE IF a.exp < b.exp THEN -1
            ELSE BCmp(a.mant, b.mant)
    IN  IF a.sign # b.sign THEN (IF a.sign > b.sign THEN 1 ELSE -1)
        ELSE IF a.sign = 0 THEN 0
        ELSE a.sign * magnitude

\* a * b.
float_mul(a, b) ==
    float_round(a.sign * b.sign, BMul(a.mant, b.mant), a.exp + b.exp, FALSE)

\* a + b.
\* The distance between a and b.
BDiff(a, b) == IF BCmp(a, b) >= 0 THEN BSub(a, b) ELSE BSub(b, a)

\* sa * A * 2^e + sb * B * 2^e; equal magnitudes of opposite sign give zero.
float_add_aligned(sa, A, sb, B, e) ==
    float_round(IF sa = sb \/ BCmp(A, B) >= 0 THEN sa ELSE sb,
                IF sa = sb THEN BAdd(A, B) ELSE BDiff(A, B), e, FALSE)

float_add(a, b) ==
    IF a.sign = 0 THEN b
    ELSE IF b.sign = 0 THEN a
    ELSE float_add_aligned(a.sign, BShl(a.mant, a.exp - Min(a.exp, b.exp)),
                           b.sign, BShl(b.mant, b.exp - Min(a.exp, b.exp)),
                           Min(a.exp, b.exp))

\* a - b.
float_sub(a, b) == float_add(a, float_neg(b))

\* k binary digits of long division of rem by d (rem below d): the digits as
\* one number below 2^k, and what remains.
RECURSIVE BDivDigit(_, _, _)
BDivPut(bit, rest) == [digit |-> bit + rest.digit, rem |-> rest.rem]
BDivBit(r2, d, k) ==
    IF BCmp(r2, d) >= 0 THEN BDivPut(2 ^ (k - 1), BDivDigit(BSub(r2, d), d, k - 1))
    ELSE BDivDigit(r2, d, k - 1)
BDivDigit(rem, d, k) ==
    IF k = 0 THEN [digit |-> 0, rem |-> rem] ELSE BDivBit(BMulSmall(rem, 2), d, k)

\* (rem * Limb^n) \div d and what remains, for rem below d.
RECURSIVE BLongDiv(_, _, _)
BLongDivPut(digit, rest) == [q |-> rest.q \o <<digit>>, rem |-> rest.rem]
BLongDivLimb(first, d, n) == BLongDivPut(first.digit, BLongDiv(first.rem, d, n - 1))
BLongDiv(rem, d, n) ==
    IF n = 0 THEN [q |-> <<>>, rem |-> rem]
    ELSE BLongDivLimb(BDivDigit(rem, d, LimbBits), d, n)

RECURSIVE BTrailingZeros(_)
BTrailingZeros(a) ==
    IF a[1] = 0 THEN LimbBits + BTrailingZeros(Tail(a))
    ELSE IF a[1] % 2 = 0 THEN 1 + BTrailingZeros(<<a[1] \div 2>>)
    ELSE 0

\* a / b, for b other than zero: the digits of the quotient of the mantissas
\* by short division when b is a power of two times a number below Limb, by
\* long division otherwise.
QuotientLimbs == (Precision + 2) \div LimbBits + 1
float_short_quotient(sign, N, k, e, q) == float_round(sign, q, e, BMulSmall(q, k) # N)
float_short_div(sign, N, k, e) == float_short_quotient(sign, N, k, e, BDivSmall(N, k))
float_long_div(sign, d, e) == float_round(sign, BNorm(d.q), e, d.rem # <<>>)
\* b.mant is k * 2^z, k odd.
float_div_odd(a, b, z, k) ==
    IF Len(k) = 1
    THEN float_short_div(a.sign * b.sign, BShl(a.mant, 2 * LimbBits), k[1],
                         a.exp - b.exp - z - 2 * LimbBits)
    ELSE float_long_div(a.sign * b.sign,
                        BLongDiv(a.mant, BMulSmall(b.mant, 2), QuotientLimbs),
                        a.exp - b.exp - (QuotientLimbs * LimbBits - 1))
float_div_zeros(a, b, z) == float_div_odd(a, b, z, BShr(b.mant, z))
float_truediv(a, b) ==
    IF a.sign = 0 THEN Zero ELSE float_div_zeros(a, b, BTrailingZeros(b.mant))

\* The decimal literal n/d (d a power of ten) as Python reads it.
decimal(n, d) == float_truediv(float(n), float(d))

\* a of a fractional part, q its integer part.
rint_fraction(a, q) ==
    a.sign * (BInt(q) + (IF rounds_up(BHalfCmp(a.mant, q, -a.exp), BOdd(q)) THEN 1 ELSE 0))

\* np.rint(a) as an integer: the nearest integer, ties to the even one.
rint(a) ==
    IF a.sign = 0 \/ -a.exp > Precision + 1 THEN 0
    ELSE IF a.exp >= 0 THEN a.sign * BInt(BShl(a.mant, a.exp))
    ELSE rint_fraction(a, BShr(a.mant, -a.exp))

\* ndarray.round(1), in tenths: numpy computes rint(a * 10) / 10.
round_1(a) == rint(float_mul(a, float(10)))

\* ndarray.sum() of a float64 array of fewer than eight elements (all the
\* frames here): numpy adds them one after another onto acc.
RECURSIVE series_sum(_, _)
series_sum(values, acc) ==
    IF values = <<>> THEN acc ELSE series_sum(Tail(values), float_add(acc, values[1]))

\* value, read from table where table holds it: the tables below are the
\* operators they name on the arguments the pools produce, evaluated once.
cached(table, key, value) == IF key \in DOMAIN table THEN table[key] ELSE value

-----------------------------------------------------------------------------
(* numpy.random *)

\* The next variate and the generator state after drawing it.
Draw(r) == r.seq[r.pos]
Advance(r) == [r EXCEPT !.pos = (r.pos % Len(r.seq)) + 1]

RECURSIVE AdvanceBy(_, _)
AdvanceBy(r, n) == IF n = 0 THEN r ELSE AdvanceBy(Advance(r), n - 1)

\* Mutant: the upper end included, as random.randint has it.
randint_closed(low, high, u) == low + ((high - low + 1) * u) \div Resolution

\* np.random.randint(low, high): an integer of [low, high) from variate u.
randint(low, high, u) == low + ((high - low) * u) \div Resolution

-----------------------------------------------------------------------------
(* Attribute estimator *)

\* Mutant: running backs estimated up to age 31.
age_ranges_rb_wide(position) ==
    CASE position = "QB" -> <<25, 35>>
      [] position = "RB" -> <<22, 32>>
      [] position = "WR" -> <<23, 30>>
      [] position = "TE" -> <<23, 29>>
      [] OTHER           -> <<24, 29>>

age_ranges(position) ==
    CASE position = "QB" -> <<25, 35>>
      [] position = "RB" -> <<22, 28>>
      [] position = "WR" -> <<23, 30>>
      [] position = "TE" -> <<23, 29>>
      [] OTHER           -> <<24, 29>>

\* Mutant: the factor peaking at age 26.
age_factor_peak_26(age) == Max(0, 100 - Abs(26 - age) * 5)

\* max(0, 1 - abs(27 - age) * 0.05), in hundredths.
age_factor(age) == Max(0, 100 - Abs(27 - age) * 5)

scrape_player_details(player_name, position, u) ==
    LET default_range == age_ranges(position)
        estimated_age == randint(default_range[1], default_range[2], u)
    IN  [age |-> estimated_age, experience |-> Max(1, estimated_age - 22)]

-----------------------------------------------------------------------------
(* Season records fed to the pipeline *)

Rec(p, pos, team, pts, yr) ==
    [Player |-> p, Position |-> pos, Team |-> team, Fantasy_Points |-> pts, Year |-> yr]

\* Historical feed: three players; the first has the three seasons of the
\* worked example, the second skips a season, changes position and has a
\* season recorded twice, the third has other positions.
HistoricalPool ==
    { Rec("a", "QB", "T1", 100, 2020), Rec("a", "QB", "T1", 150, 2021),
      Rec("a", "QB", "T2", 120, 2022),
      Rec("b", "RB", "T1", 53, 2020),  Rec("b", "RB", "T2", 80, 2020),
      Rec("b", "WR", "T1", 0, 2022),
      Rec("c", "K", "T1", 60, 2021),   Rec("c", "TE", "T2", 75, 2022) }

-----------------------------------------------------------------------------
(* Transition extractor: prepare_training_data *)

\* historical_data['Player'].unique(): players in order of first appearance.
RECURSIVE unique(_)
unique(s) ==
    IF s = <<>> THEN <<>>
    ELSE LET front == unique(SubSeq(s, 1, Len(s) - 1))
             last == s[Len(s)]
         IN  IF \E i \in 1..Len(front) : front[i] = last THEN front
             ELSE Append(front, last)

PlayerColumn(data) == [i \in 1..Len(data) |-> data[i].Player]

\* Mutant: the player's rows left in input order (the sort forgotten).
rows_in_input_order(data, player) ==
    LET rows == {i \in 1..Len(data) : data[i].Player = player}
    IN  {[k \in 1..Cardinality(rows) |->
            data[CHOOSE i \in rows : Cardinality({j \in rows : j < i}) = k - 1]]}

\* historical_data[historical_data['Player'] == player].sort_values('Year'):
\* every year-ascending ordering of the player's rows.  The default sort kind
\* is not stable, so rows of equal Year may come out in any order.
sort_values_Year(data, player) ==
    LET rows == {i \in 1..Len(data) : data[i].Player = player}
    IN  {[k \in 1..Len(s) |-> data[s[k]]] :
            s \in {t \in Perms(rows) :
                     \A i, j \in 1..Cardinality(rows) :
                        i < j => data[t[i]].Year <= data[t[j]].Year}}

\* The feature list built at lines 43-66 for row i of a player's sorted rows.
training_features(player_data, i, position, player_details) ==
    << player_data[i].Fantasy_Points,
       player_data[i].Fantasy_Points * 8,
       IF position = "QB" THEN 1 ELSE 0,
       IF position = "RB" THEN 1 ELSE 0,
       IF position = "WR" THEN 1 ELSE 0,
       IF position = "TE" THEN 1 ELSE 0,
       age_factor(player_details.age),
       Min(10, player_details.experience * 2),
       IF position = "RB" /\ player_details.age > 28 THEN 1 ELSE 0,
       IF position = "WR" /\ 26 <= player_details.age /\ player_details.age <= 32
          THEN 1 ELSE 0,
       player_data[i].Year - 2019,
       IF player_data[i].Team = player_data[i + 1].Team THEN 1 ELSE 0 >>

\* Mutant: the player's details estimated anew for every example.
RECURSIVE player_examples_draw_each(_, _, _, _, _, _)
player_examples_draw_each(acc, player, player_data, position, player_details, i) ==
    IF i > Len(player_data) - 1 THEN acc
    ELSE LET details == scrape_player_details(player, position, Draw(acc.rng))
         IN  player_examples_draw_each(
                [acc EXCEPT
                   !.X = Append(@, training_features(player_data, i, position, details)),
                   !.y = Append(@, player_data[i + 1].Fantasy_Points),
                   !.player_info = Append(@, [player |-> player,
                                              position |-> position,
                                              current_year |-> player_data[i].Year,
                                              next_year |-> player_data[i + 1].Year]),
                   !.rng = Advance(@)],
                player, player_data, position, player_details, i + 1)

\* The inner loop (lines 41-75) for one player: acc extended by one example
\* per consecutive pair of rows.
RECURSIVE player_examples(_, _, _, _, _, _)
player_examples(acc, player, player_data, position, player_details, i) ==
    IF i > Len(player_data) - 1 THEN acc
    ELSE player_examples(
            [acc EXCEPT
               !.X = Append(@, training_features(player_data, i, position, player_details)),
               !.y = Append(@, player_data[i + 1].Fantasy_Points),
               !.player_info = Append(@, [player |-> player,
                                          position |-> position,
                                          current_year |-> player_data[i].Year,
                                          next_year |-> player_data[i + 1].Year])],
            player, player_data, position, player_details, i + 1)

\* Mutant: the position of the player's earliest record.
first_position(player_data) == player_data[1].Position

\* player_data.iloc[-1]['Position']
last_position(player_data) == player_data[Len(player_data)].Position

\* The outer loop (lines 34-75) from the k-th player on: the set of results
\* the loop can end with, one per way the sorts can order equal years.
RECURSIVE training_loop(_, _, _, _)
training_loop(acc, data, players, k) ==
    IF k > Len(players) THEN {acc}
    ELSE UNION {
           IF Len(player_data) >= 2
           THEN LET position == last_position(player_data)
                    player_details ==
                        scrape_player_details(players[k], position, Draw(acc.rng))
                IN  training_loop(
                       player_examples([acc EXCEPT !.rng = Advance(@)], players[k],
                                       player_data, position, player_details, 1),
                       data, players, k + 1)
           ELSE training_loop(acc, data, players, k + 1)
           : player_data \in sort_values_Year(data, players[k]) }

\* prepare_training_data(historical_data): the possible (X, y, player_info),
\* with the generator state it leaves.
prepare_training_data(data, r) ==
    training_loop([X |-> <<>>, y |-> <<>>, player_info |-> <<>>, rng |-> r],
                  data, unique(PlayerColumn(data)), 1)

-----------------------------------------------------------------------------
(* Predictor: prepare_prediction_features and make_predictions *)

\* Current-season feed: one row per player, one season.
CurrentPool ==
    { Rec("a", "QB", "T1", 100, 2024), Rec("b", "RB", "T1", 53, 2024),
      Rec("c", "WR", "T2", 0, 2024),   Rec("d", "TE", "T2", 120, 2024),
      Rec("e", "K", "T1", 53, 2024) }

\* datetime.now().year when the predictor runs: the season's year or the next.
ClockYears == {2024, 2025}

\* The j-th variate drawn from generator state r (j = 1 is the next one).
DrawAt(r, j) == r.seq[((r.pos - 1 + j - 1) % Len(r.seq)) + 1]

\* np.random.uniform(low, high) of doubles low and high:
\* low + (high - low) * random_sample(), the sample being u/Resolution.
uniform(low, high, u) ==
    float_add(low, float_mul(float_sub(high, low), decimal(u, Resolution)))

\* The quotient num/den (den > 0) rounded to the nearest integer, halves to
\* the even neighbour.
RoundHalfEven(num, den) ==
    LET q == num \div den
        r == num % den
    IN  IF 2 * r < den THEN q
        ELSE IF 2 * r > den THEN q + 1
        ELSE IF q % 2 = 0 THEN q ELSE q + 1

\* Mutant: the ten-field row of the original script (no year trend, no team
\* consistency) served to a model trained on twelve fields.
prediction_features_ten(player, player_details, year) ==
    << player.Fantasy_Points,
       player.Fantasy_Points * 8,
       IF player.Position = "QB" THEN 1 ELSE 0,
       IF player.Position = "RB" THEN 1 ELSE 0,
       IF player.Position = "WR" THEN 1 ELSE 0,
       IF player.Position = "TE" THEN 1 ELSE 0,
       Max(0, 100 - Abs(27 - player_details.age) * 5),
       Min(10, player_details.experience * 2),
       IF player.Position = "RB" /\ player_details.age > 28 THEN 1 ELSE 0,
       IF player.Position = "WR" /\ 26 <= player_details.age /\ player_details.age <= 32
          THEN 1 ELSE 0 >>

\* The feature list built at lines 58-81 for one row.
prediction_features(player, player_details, year) ==
    << player.Fantasy_Points,
       player.Fantasy_Points * 8,
       IF player.Position = "QB" THEN 1 ELSE 0,
       IF player.Position = "RB" THEN 1 ELSE 0,
       IF player.Position = "WR" THEN 1 ELSE 0,
       IF player.Position = "TE" THEN 1 ELSE 0,
       age_factor(player_details.age),
       Min(10, player_details.experience * 2),
       IF player.Position = "RB" /\ player_details.age > 28 THEN 1 ELSE 0,
       IF player.Position = "WR" /\ 26 <= player_details.age /\ player_details.age <= 32
          THEN 1 ELSE 0,
       year - 2019,
       1 >>

\* Mutant: the age drawn once and used for every row.
prepare_prediction_features_one_draw(data, year, r) ==
    LET details == [i \in 1..Len(data) |->
                      scrape_player_details(data[i].Player, data[i].Position, DrawAt(r, 1))]
    IN  [X_pred |-> [i \in 1..Len(data) |-> prediction_features(data[i], details[i], year)],
         players |-> [i \in 1..Len(data) |-> data[i].Player],
         player_details_list |-> details]

\* prepare_prediction_features(current_year_data), run in calendar year `year`
\* from generator state r: one age draw per row, in row order.
prepare_prediction_features(data, year, r) ==
    LET details == [i \in 1..Len(data) |->
                      scrape_player_details(data[i].Player, data[i].Position, DrawAt(r, i))]
    IN  [X_pred |-> [i \in 1..Len(data) |-> prediction_features(data[i], details[i], year)],
         players |-> [i \in 1..Len(data) |-> data[i].Player],
         player_details_list |-> details]

\* The fitted regressor is opaque to the pipeline: any function of the feature
\* row.  Three stand for it: the current points, the second field (eight
\* tenths of them) and the constant 50.3, each as the float64 predict returns.
Models == {"carry", "weighted", "flat"}
tenths_table == [n \in {player.Fantasy_Points * 8 : player \in CurrentPool} \cup {503} |->
                    decimal(n, 10)]
predict(m, features) ==
    CASE m = "carry"    -> float(features[1])
      [] m = "weighted" -> cached(tenths_table, features[2], decimal(features[2], 10))
      [] OTHER          -> cached(tenths_table, 503, decimal(503, 10))

\* Mutant: the quarterback's and the running back's variances exchanged.
position_variance_swapped(pos) ==
    CASE pos = "QB" -> 25
      [] pos = "RB" -> 15
      [] pos = "WR" -> 20
      [] pos = "TE" -> 30
      [] OTHER      -> 20

\* position_variance.get(pos, 0.20), in hundredths.
position_variance(pos) ==
    CASE pos = "QB" -> 15
      [] pos = "RB" -> 25
      [] pos = "WR" -> 20
      [] pos = "TE" -> 30
      [] OTHER      -> 20

\* predictions[i] *= np.random.uniform(1-variance, 1+variance), line 109: the
\* product of two doubles, rounded to a double.
variance_factor(variance, u) ==
    uniform(float_sub(float(1), variance), float_add(float(1), variance), u)
adjusted_prediction(raw, pos, u) ==
    float_mul(raw, variance_factor(decimal(position_variance(pos), 100), u))

\* ((predictions - Fantasy_Points) / Fantasy_Points * 100).round(1), lines
\* 118-119, in tenths: float64 arithmetic, so a zero divisor gives inf, -inf
\* or nan.
Finite(tenths) == [kind |-> "finite", tenths |-> tenths]
Special(kind) == [kind |-> kind, tenths |-> 0]

\* change / current * 100, rounded to a tenth.
percent_of(change, current) ==
    IF current.sign = 0
    THEN (IF change.sign > 0 THEN Special("inf")
          ELSE IF change.sign < 0 THEN Special("-inf") ELSE Special("nan"))
    ELSE Finite(round_1(float_mul(float_truediv(change, current), float(100))))
percent_change_from(prediction, current) ==
    percent_of(float_sub(prediction, current), current)

\* Mutant: the percentage taken from the prediction already rounded to a tenth.
percent_change_of_rounded(prediction, points) ==
    percent_change_from(decimal(round_1(prediction), 10), float(points))

percent_change(prediction, points) == percent_change_from(prediction, float(points))

\* np.random.uniform(70, 95, size=...).round(1), line 120, in tenths.
confidence(u) == round_1(uniform(float(70), float(95), u))

\* The operators above on what the current-season pool feeds them.
PoolPredictions ==
    {predict(m, prediction_features(player,
                                    scrape_player_details(player.Player, player.Position, u),
                                    year)) :
        m \in Models, player \in CurrentPool, u \in Variates, year \in ClockYears}
adjusted_prediction_table ==
    [k \in {<<raw, player.Position, u>> :
               raw \in PoolPredictions, player \in CurrentPool, u \in Variates} |->
        adjusted_prediction(k[1], k[2], k[3])]
PoolAdjusted == {adjusted_prediction_table[k] : k \in DOMAIN adjusted_prediction_table}
round_1_table == [a \in PoolAdjusted |-> round_1(a)]
percent_change_table ==
    [k \in {<<a, player.Fantasy_Points>> : a \in PoolAdjusted, player \in CurrentPool} |->
        percent_change(k[1], k[2])]
confidence_table == [u \in Variates |-> confidence(u)]

\* Lines 97-109: model.predict(X_pred), each entry then scaled by its row's
\* variance draw.
adjusted_predictions(m, data, feats, r) ==
    [i \in 1..Len(data) |->
       LET raw == predict(m, feats.X_pred[i])
           u == DrawAt(r, Len(data) + i)
       IN  cached(adjusted_prediction_table, <<raw, data[i].Position, u>>,
                  adjusted_prediction(raw, data[i].Position, u))]

\* The frame of lines 112-123, rows in input order; index is the row label.
\* Predicted_Next_Year, Percent_Change and Confidence are in tenths.
results_frame(data, feats, preds, r) ==
    LET n == Len(data)
    IN  [i \in 1..n |->
           [index |-> i - 1,
            Player |-> feats.players[i],
            Position |-> data[i].Position,
            Team |-> data[i].Team,
            Current_Points |-> data[i].Fantasy_Points,
            Predicted_Next_Year |-> cached(round_1_table, preds[i], round_1(preds[i])),
            Percent_Change |->
                cached(percent_change_table, <<preds[i], data[i].Fantasy_Points>>,
                       percent_change(preds[i], data[i].Fantasy_Points)),
            Confidence |->
                cached(confidence_table, DrawAt(r, 2 * n + i),
                       confidence(DrawAt(r, 2 * n + i))),
            Age |-> feats.player_details_list[i].age,
            Experience |-> feats.player_details_list[i].experience]]

\* df.sort_values('Predicted_Next_Year', ascending=False): every descending
\* ordering of the rows (rows of equal value may come out in any order).
sort_values_Predicted(df) ==
    {[k \in 1..Len(df) |-> df[s[k]]] :
        s \in {t \in Perms(1..Len(df)) :
                 \A i, j \in 1..Len(df) :
                    i < j => df[t[i]].Predicted_Next_Year >= df[t[j]].Predicted_Next_Year}}

\* Mutant: the last n rows (tail for head).
tail_rows(df, n) == SubSeq(df, Max(Len(df) - Max(n, 0), 0) + 1, Len(df))

\* df.head(n): the first n rows, or all but the last -n when n is negative.
head(df, n) ==
    IF n >= 0 THEN SubSeq(df, 1, Min(n, Len(df)))
    ELSE SubSeq(df, 1, Max(Len(df) + n, 0))

\* make_predictions(model, current_year_data, top_n): the possible outcomes.
make_predictions(m, data, n, year, r) ==
    LET feats == prepare_prediction_features(data, year, r)
    IN  IF Len(feats.X_pred) = 0
        THEN {[X_pred |-> <<>>, predictions |-> <<>>, results_df |-> <<>>,
               results |-> <<>>, rng |-> r]}
        ELSE LET preds == adjusted_predictions(m, data, feats, r)
                 df == results_frame(data, feats, preds, r)
             IN  {[X_pred |-> feats.X_pred, predictions |-> preds, results_df |-> df,
                   results |-> head(sorted, n),
                   rng |-> AdvanceBy(r, (3 * Len(data)) % Len(r.seq))] :
                     sorted \in sort_values_Predicted(df)}

\* top_n values a caller passes: none, some, and the default 50.
TopNs == {0, 1, 2, 50}

-----------------------------------------------------------------------------
(* utils *)

\* create_response(status_code, body); the body is kept structured.
create_response(status_code, body) == [statusCode |-> status_code, body |-> body]

\* download_from_s3(bucket, key): the object's parsed content, or None when
\* get_object raises (no such key, or the call fails).
None == [none |-> TRUE]
\* A pickled estimator is not UTF-8 text: content.decode raises on it, and the
\* raise is caught like any other.
Decodes(object) == "estimator" \notin DOMAIN object
download_from_s3(bucket, key, callOk) ==
    IF callOk /\ key \in DOMAIN bucket /\ Decodes(bucket[key]) THEN bucket[key] ELSE None

\* The context the Lambda runtime passes, and what a direct caller may pass
\* in its place: nothing, or an object without the request id.
LambdaContext == [function_name |-> "function", aws_request_id |-> "request"]
Contexts == {LambdaContext, None, [function_name |-> "function"]}

\* log_event(event, context): prints the event and two attributes of the
\* context; reading an attribute the context lacks raises AttributeError.
\* The handlers call it before their try block.
log_event(ev, ctx) ==
    [raised |-> ~({"function_name", "aws_request_id"} \subseteq DOMAIN ctx)]

-----------------------------------------------------------------------------
(* Text of a query parameter: a sequence of characters *)

\* A text is a sequence of characters, each written as a string.  An ASCII
\* character is itself; "Nd0" .. "Nd9" stand for the non-ASCII characters of
\* Unicode category Nd with that digit value (U+FF15 is "Nd5"), "VT" for the
\* vertical tab, and "Zs" for any other non-ASCII white space (U+00A0, ...).
DigitChars == <<"0", "1", "2", "3", "4", "5", "6", "7", "8", "9">>
NdChars == <<"Nd0", "Nd1", "Nd2", "Nd3", "Nd4", "Nd5", "Nd6", "Nd7", "Nd8", "Nd9">>
Whitespace == {" ", "\t", "\n", "\r", "\f", "VT", "Zs"}
IsDigit(c) == \E d \in 1..10 : DigitChars[d] = c \/ NdChars[d] = c
DigitValue(c) == (CHOOSE d \in 1..10 : DigitChars[d] = c \/ NdChars[d] = c) - 1

\* The value of a digit string in which single underscores may separate
\* digits; the underscores do not count.
RECURSIVE DigitsValue(_)
DigitsValue(cs) ==
    IF cs = <<>> THEN 0
    ELSE IF cs[Len(cs)] = "_" THEN DigitsValue(SubSeq(cs, 1, Len(cs) - 1))
    ELSE 10 * DigitsValue(SubSeq(cs, 1, Len(cs) - 1)) + DigitValue(cs[Len(cs)])

\* str.strip(): the text without its leading and trailing white space.
RECURSIVE strip(_)
strip(text) ==
    IF text = <<>> THEN text
    ELSE IF text[1] \in Whitespace THEN strip(Tail(text))
    ELSE IF text[Len(text)] \in Whitespace THEN strip(SubSeq(text, 1, Len(text) - 1))
    ELSE text

\* Python's int(text): white space around the number is dropped; what is
\* left is an optional sign and decimal digits, with single underscores
\* allowed between digits; anything else is a ValueError.
int(text) ==
    LET stripped == strip(text)
        signed == Len(stripped) > 0 /\ stripped[1] \in {"-", "+"}
        digits == IF signed THEN Tail(stripped) ELSE stripped
        wellFormed ==
            /\ Len(digits) > 0
            /\ IsDigit(digits[1]) /\ IsDigit(digits[Len(digits)])
            /\ \A i \in 1..Len(digits) :
                  \/ IsDigit(digits[i])
                  \/ digits[i] = "_" /\ IsDigit(digits[i - 1]) /\ IsDigit(digits[i + 1])
    IN  IF wellFormed
        THEN [ok |-> TRUE,
              value |-> IF signed /\ stripped[1] = "-" THEN -DigitsValue(digits)
                        ELSE DigitsValue(digits)]
        ELSE [ok |-> FALSE, value |-> 0]

\* The decimal text of an integer, as a client writes it in the query string.
RECURSIVE NatText(_)
NatText(n) ==
    IF n < 10 THEN <<DigitChars[n + 1]>>
    ELSE Append(NatText(n \div 10), DigitChars[(n % 10) + 1])
IntText(n) == IF n < 0 THEN <<"-">> \o NatText(-n) ELSE NatText(n)

\* str.upper() of an ASCII text: every lower-case letter becomes its capital,
\* every other character stays.  The result is joined into one string, as
\* the Position column holds it.
LowerChars == <<"a", "b", "c", "d", "e", "f", "g", "h", "i", "j", "k", "l", "m",
                "n", "o", "p", "q", "r", "s", "t", "u", "v", "w", "x", "y", "z">>
UpperChars == <<"A", "B", "C", "D", "E", "F", "G", "H", "I", "J", "K", "L", "M",
                "N", "O", "P", "Q", "R", "S", "T", "U", "V", "W", "X", "Y", "Z">>
upper_char(c) ==
    IF \E k \in 1..26 : LowerChars[k] = c
    THEN UpperChars[CHOOSE k \in 1..26 : LowerChars[k] = c]
    ELSE c
RECURSIVE Join(_)
Join(cs) == IF cs = <<>> THEN "" ELSE cs[1] \o Join(Tail(cs))
upper(text) == Join([i \in 1..Len(text) |-> upper_char(text[i])])

-----------------------------------------------------------------------------
(* Predictor query handler: lambda_handler of predictor.py *)

PRec(p, pos, team, pts, pred, pct, conf, age, exp) ==
    [Player |-> p, Position |-> pos, Team |-> team, Current_Points |-> pts,
     Predicted_Next_Year |-> pred, Percent_Change |-> Finite(pct), Confidence |-> conf,
     Age |-> age, Experience |-> exp]

\* Records of a persisted prediction set; two share the top predicted value.
PredictionPool ==
    { PRec("a", "QB", "T1", 100, 1120, 120, 825, 30, 8),
      PRec("b", "RB", "T1", 53, 318, -400, 700, 22, 1),
      PRec("c", "WR", "T2", 40, 400, 0, 925, 26, 4),
      PRec("d", "TE", "T2", 120, 1120, -67, 700, 23, 1) }

predictions_key(year) == <<"predictions/fantasy_predictions_", year, ".json">>

\* pd.DataFrame(list of records): the rows labelled 0, 1, ...; a frame built
\* from an empty list has no columns.
DataFrame(rows) ==
    [rows |-> [i \in 1..Len(rows) |-> [index |-> i - 1, row |-> rows[i]]],
     has_columns |-> Len(rows) > 0]

filter_position(df, position) ==
    [df EXCEPT !.rows = SelectSeq(@, LAMBDA r : r.row.Position = position)]

\* Mutant: the emptiness test of line 160 never true.
never_empty(df) == FALSE

\* predictions_df.empty
empty(df) == Len(df.rows) = 0

sort_frame_Predicted(df) ==
    {[df EXCEPT !.rows = [k \in 1..Len(df.rows) |-> df.rows[s[k]]]] :
        s \in {t \in Perms(1..Len(df.rows)) :
                 \A i, j \in 1..Len(df.rows) :
                    i < j => df.rows[t[i]].row.Predicted_Next_Year
                               >= df.rows[t[j]].row.Predicted_Next_Year}}

\* The doubles of a column of numbers; scale is 10 for whole numbers and 1
\* for numbers kept in tenths (the double nearest the decimal).
column_values(numbers, scale) ==
    [i \in 1..Len(numbers) |-> decimal(scale * numbers[i], 10)]

\* Series.mean() of a float64 column: the sum of the doubles divided by the
\* count, not rounded.
series_mean(numbers, scale) ==
    float_truediv(series_sum(column_values(numbers, scale), Zero), float(Len(numbers)))

\* The columns the record pools produce, as <<numbers, scale>>.
PoolColumns ==
    {<<numbers, 1>> :
        numbers \in SeqUpTo({p.Percent_Change.tenths : p \in PredictionPool}, MaxRecords)
                      \ {<<>>}}
      \cup {<<numbers, 1>> :
              numbers \in SeqUpTo({p.Confidence : p \in PredictionPool}, MaxRecords)
                            \ {<<>>}}
      \cup {<<numbers, 10>> :
              numbers \in SeqUpTo({p.Age : p \in PredictionPool}, MaxRecords) \ {<<>>}}
      \cup {<<numbers, 10>> :
              numbers \in SeqUpTo({p.Experience : p \in PredictionPool}, MaxRecords)
                            \ {<<>>}}
      \cup {<<numbers, 10>> :
              numbers \in SeqUpTo({p.Fantasy_Points : p \in HistoricalPool}, MaxRecords)
                            \ {<<>>}}
series_mean_table == [k \in PoolColumns |-> series_mean(k[1], k[2])]

\* predictions_df['Percent_Change'].mean(), line 185.
mean_Percent_Change(rows) ==
    cached(series_mean_table,
           <<[i \in 1..Len(rows) |-> rows[i].Percent_Change.tenths], 1>>,
           series_mean([i \in 1..Len(rows) |-> rows[i].Percent_Change.tenths], 1))

\* Lines 166-194: the 200 response for the sorted, truncated frame, or the
\* IndexError of predictions[0] when the frame has no rows.
query_result(df, year) ==
    LET rows == [i \in 1..Len(df.rows) |-> df.rows[i].row]
    IN  IF Len(rows) = 0
        THEN create_response(500, [error |-> "IndexError"])
        ELSE create_response(200,
               [predictions |-> rows,
                summary |->
                  [total_predictions |-> Len(rows),
                   position_breakdown |->
                      [pos \in {rows[i].Position : i \in 1..Len(rows)} |->
                         Cardinality({i \in 1..Len(rows) :
                                         rows[i].Position = pos})],
                   avg_predicted_change |-> mean_Percent_Change(rows),
                   top_predicted_player |-> rows[1].Player,
                   top_predicted_points |-> rows[1].Predicted_Next_Year],
                note |-> year])

\* lambda_handler(event, context) of predictor.py: the possible
\* [response, predictions_df] outcomes; predictions_df is the frame the
\* response was built from (empty when the handler returned before it).
predictor_lambda_handler(ev, env, bucket, year, callOk) ==
    LET EmptyFrame == DataFrame(<<>>)
        Return(resp) == {[response |-> resp, predictions_df |-> EmptyFrame]}
        query_params ==
            IF "queryStringParameters" \in DOMAIN ev
            THEN ev["queryStringParameters"] ELSE [k \in {} |-> <<>>]
        parsed == IF "top_n" \in DOMAIN query_params
                  THEN int(query_params["top_n"]) ELSE [ok |-> TRUE, value |-> 50]
        has_position == "position" \in DOMAIN query_params /\ query_params["position"] # <<>>
        predictions_data == download_from_s3(bucket, predictions_key(year), callOk)
        frame == IF predictions_data.list THEN DataFrame(predictions_data.items)
                 ELSE DataFrame(<<predictions_data.item>>)
        filtered == IF has_position
                    THEN filter_position(frame, upper(query_params["position"]))
                    ELSE frame
    IN  IF ~env.S3_BUCKET THEN
            Return(create_response(500, [error |-> "S3_BUCKET environment variable not set"]))
        ELSE IF ~parsed.ok THEN
            Return(create_response(500, [error |-> "ValueError"]))
        ELSE IF predictions_data = None THEN
            Return(create_response(404, [error |-> "No predictions found"]))
        ELSE IF ~frame.has_columns THEN
            Return(create_response(500, [error |-> "KeyError"]))
        ELSE IF has_position /\ empty(filtered) THEN
            Return(create_response(404, [error |-> "No players found for position"]))
        ELSE {[response |-> query_result([sorted EXCEPT !.rows = head(@, parsed.value)], year),
               predictions_df |-> [sorted EXCEPT !.rows = head(@, parsed.value)]] :
                 sorted \in sort_frame_Predicted(filtered)}

\* What the bucket may hold under a predictions key: a list of records, or
\* one record stored as a single JSON object.
JsonList(items) == [list |-> TRUE, items |-> items, item |-> None]
JsonObject(item) == [list |-> FALSE, items |-> <<>>, item |-> item]

\* A list of records whose years are written as reals (2020.0): pandas reads
\* the Year column as float64, where whole numbers give int64.
JsonListReal(items) ==
    [list |-> TRUE, items |-> items, item |-> None, year_real |-> TRUE]
year_dtype(data) == IF "year_real" \in DOMAIN data THEN "float64" ELSE "int64"
PredictionObjects ==
    {JsonList(items) : items \in SeqUpTo(PredictionPool, MaxRecords)}
        \cup {JsonObject(item) : item \in PredictionPool}

\* The bucket holds no predictions object, or one for the season's year.
PredictionBuckets ==
    {[k \in {} |-> None]}
        \cup {[k \in {predictions_key(2024)} |-> obj] : obj \in PredictionObjects}

\* Query strings a client may send.
TopNTexts ==
    {IntText(n) : n \in {-1, 0, 1, 2, 50}} \cup {<<"a", "b", "c">>, <<" ", "Nd1", "_", "0">>}
PositionTexts == {<<>>, <<"q", "b">>, <<"Q", "B">>, <<"t", "e">>, <<"k">>}
QueryParams ==
    {[k \in {} |-> <<>>]}
        \cup {[k \in {"top_n"} |-> t] : t \in TopNTexts}
        \cup {[k \in {"position"} |-> p] : p \in PositionTexts}
        \cup {[k \in {"top_n", "position"} |-> IF k = "top_n" THEN t ELSE p] :
                 t \in TopNTexts, p \in PositionTexts}
Events ==
    {[k \in {} |-> <<>>]} \cup {[k \in {"queryStringParameters"} |-> q] : q \in QueryParams}

-----------------------------------------------------------------------------
(* Objects of the two buckets and the pure steps of the trainer *)

\* Mutant: a write that leaves an existing object alone (first writer wins).
upload_if_absent(data, bucket, key) ==
    [k \in DOMAIN bucket \cup {key} |-> IF k \in DOMAIN bucket THEN bucket[k] ELSE data]

\* Mutant: a pointer already in the bucket is updated field by field, and the
\* update of its metadata key is lost.
upload_pointer_in_parts(data, bucket, key) ==
    [k \in DOMAIN bucket \cup {key} |->
       IF k # key THEN bucket[k]
       ELSE IF /\ key \in DOMAIN bucket
               /\ "latest_metadata_key" \in DOMAIN data
               /\ "latest_metadata_key" \in DOMAIN bucket[key]
            THEN [data EXCEPT !.latest_metadata_key = bucket[key].latest_metadata_key]
            ELSE data]

\* upload_to_s3(data, bucket, key): put_object replaces whatever the key held.
upload_to_s3(data, bucket, key) ==
    [k \in DOMAIN bucket \cup {key} |-> IF k = key THEN data ELSE bucket[k]]

\* list_s3_objects(bucket, prefix): the keys under the prefix, [] when the
\* call raises.
list_s3_objects(bucket, prefix, callOk) ==
    IF callOk THEN {k \in DOMAIN bucket : k[1] = prefix} ELSE {}

\* Keys are kept in parts; the stamp is the "%Y%m%d_%H%M%S" text, which
\* orders as the second it names.
raw_data_key(stamp) == <<"raw_data/", "fantasy_stats_", stamp, ".json">>
model_key(timestamp) == <<"models/", "fantasy_predictor_", timestamp, ".joblib">>
metadata_key(timestamp) == <<"metadata/", "model_metadata_", timestamp, ".json">>
latest_model_key == <<"latest_model.json">>

\* sorted(raw_data_files)[-1]
latest_file(raw_data_files) ==
    CHOOSE k \in raw_data_files : \A j \in raw_data_files : j[3] <= k[3]

\* Raw data objects the bucket may hold: records as a JSON list.
\* An empty list; one season (no example); two seasons (one example, too
\* few to split); three seasons (two examples).
OneSeason == << Rec("a", "QB", "T1", 100, 2020) >>
TwoSeasons == << Rec("b", "RB", "T1", 53, 2020), Rec("b", "RB", "T2", 80, 2020) >>
ThreeSeasons ==
    << Rec("a", "QB", "T2", 120, 2022), Rec("a", "QB", "T1", 100, 2020),
       Rec("a", "QB", "T1", 150, 2021) >>
RawDatasets == {<<>>, OneSeason, TwoSeasons, ThreeSeasons}
RawStamps == {1, 2}
RawBuckets ==
    {[k \in {} |-> None]}
        \cup {[k \in {raw_data_key(1)} |-> JsonList(d)] : d \in RawDatasets}
        \cup {[k \in {raw_data_key(1)} |-> JsonListReal(ThreeSeasons)]}
        \cup {[k \in {raw_data_key(1), raw_data_key(2)} |->
                  IF k = raw_data_key(1) THEN d[1] ELSE d[2]] :
                 d \in {<<JsonList(OneSeason), JsonList(ThreeSeasons)>>,
                        <<JsonList(OneSeason), JsonListReal(ThreeSeasons)>>,
                        <<JsonListReal(ThreeSeasons), JsonList(TwoSeasons)>>}}

\* event['body'] after json.loads: absent, not JSON, or an object that may
\* name a data_source.
InvalidJson == [valid |-> FALSE, data_source |-> <<"latest">>]
JsonBody(data_source) == [valid |-> TRUE, data_source |-> data_source]
TrainerBodies ==
    {None, InvalidJson, JsonBody(<<"latest">>)}
        \cup {JsonBody(raw_data_key(t)) : t \in RawStamps}

\* len(X) == 0
insufficient_data(examples) == Len(examples) = 0

\* train_model(X, y): train_test_split(test_size=0.2) raises when the train
\* part, floor(0.8 * n) examples, is empty; otherwise the forest is fitted.
train_model(examples, labels) ==
    LET n_train == (8 * Len(examples)) \div 10
    IN  [ok |-> n_train > 0,
         model |-> [estimator |-> "RandomForestRegressor", fitted_on |-> n_train],
         metrics |-> [tested_on |-> Len(examples) - n_train]]

\* A value read from a frame's Year column: a numpy scalar of the column's
\* dtype.
numpy_scalar(value, dtype) == [value |-> value, dtype |-> dtype]

\* Lines 195-204.  The sample holds the first ten provenance entries, whose
\* years are numpy scalars read from the frame.
metadata(this, data_source) ==
    [timestamp |-> this.timestamp, model_type |-> "RandomForestRegressor",
     training_samples |-> this.samples, features |-> 12,
     metrics |-> this.metrics,
     model_key |-> model_key(this.timestamp), data_source |-> data_source,
     player_info_sample |->
        [i \in 1..Min(10, Len(this.player_info)) |->
           [player |-> this.player_info[i].player,
            position |-> this.player_info[i].position,
            current_year |-> numpy_scalar(this.player_info[i].current_year,
                                          this.year_dtype),
            next_year |-> numpy_scalar(this.player_info[i].next_year,
                                       this.year_dtype)]]]

\* json.dumps(data) in upload_to_s3 (utils.py line 19) for a dict: a numpy
\* int64 is not JSON serializable (TypeError); a numpy float64 is a float.
json_serializable(data) ==
    "player_info_sample" \in DOMAIN data =>
       \A i \in 1..Len(data.player_info_sample) :
          /\ data.player_info_sample[i].current_year.dtype # "int64"
          /\ data.player_info_sample[i].next_year.dtype # "int64"

\* Mutant: the reference names the metadata key of the following second.
latest_model_ref_ahead(timestamp) ==
    [latest_model_key |-> model_key(timestamp),
     latest_metadata_key |-> metadata_key(timestamp + 1),
     last_updated |-> timestamp]

\* Lines 210-214.
latest_model_ref(timestamp) ==
    [latest_model_key |-> model_key(timestamp),
     latest_metadata_key |-> metadata_key(timestamp),
     last_updated |-> timestamp]

-----------------------------------------------------------------------------
(* predictor.load_latest_model *)

\* What "not x" finds falsy in a downloaded value: None or an empty object.
Falsy(value) == value = None \/ DOMAIN value = {}

\* Lines 29-33, the first read of the store: the reference, or None where
\* the function raises (nothing downloaded, or no 'latest_model_key' in it).
load_latest_model_reference(bucket, refOk) ==
    LET latest_ref == download_from_s3(bucket, latest_model_key, refOk)
    IN  IF Falsy(latest_ref) \/ "latest_model_key" \notin DOMAIN latest_ref THEN None
        ELSE latest_ref

\* Mutant: with the referenced model gone, the newest model object of the
\* bucket is used instead.
load_latest_model_fallback(bucket, latest_ref, modelOk, loadsOk) ==
    LET models == {k \in DOMAIN bucket : k[1] = "models/"}
        newest == CHOOSE k \in models : \A j \in models : j[3] <= k[3]
    IN  IF models = {} THEN <<None, None>> ELSE <<bucket[newest], latest_ref>>

\* Lines 35-45, the second read of the store and joblib.loads: the pair
\* load_latest_model returns.  Any raise is caught and gives (None, None).
load_latest_model(bucket, latest_ref, modelOk, loadsOk) ==
    LET model_bytes == download_from_s3(bucket, latest_ref.latest_model_key, modelOk)
    IN  IF Falsy(model_bytes) THEN <<None, None>>
        ELSE IF ~loadsOk THEN <<None, None>>
        ELSE <<model_bytes, latest_ref>>

\* Model buckets load_latest_model may meet.  A model object is the pickle
\* the trainer stores or a text object put there by other means.
TextModel(name) == [weights |-> name]
ModelBuckets ==
    LET Bucket(keys, objects) == [k \in keys |-> objects[k]]
        Objects(model_1) ==
            [k \in {latest_model_key, model_key(1), model_key(2), metadata_key(1)} |->
                IF k = latest_model_key THEN latest_model_ref(2)
                ELSE IF k = model_key(1) THEN model_1
                ELSE IF k = model_key(2) THEN TextModel("second")
                ELSE metadata([timestamp |-> 1, samples |-> 2,
                               metrics |-> train_model(<<1, 2>>, <<1, 2>>).metrics,
                               player_info |->
                                  <<[player |-> "a", position |-> "QB",
                                     current_year |-> 2020, next_year |-> 2021],
                                    [player |-> "a", position |-> "QB",
                                     current_year |-> 2021, next_year |-> 2022]>>,
                               year_dtype |-> "float64"], <<"latest">>)]
        Stale == Objects(TextModel("first"))
        Pickled == [Stale EXCEPT ![latest_model_key] = latest_model_ref(1),
                                 ![model_key(1)] = train_model(<<1, 2>>, <<1, 2>>).model]
    IN  { [k \in {} |-> None],
          Bucket({model_key(1), metadata_key(1)}, Stale),
          Bucket({latest_model_key, model_key(1), metadata_key(1)}, Stale),
          Bucket({latest_model_key, model_key(1), model_key(2)}, Stale),
          Bucket({latest_model_key, model_key(1), metadata_key(1)}, Pickled),
          Bucket({latest_model_key, model_key(1)},
                 [Stale EXCEPT ![latest_model_key] = [k \in {} |-> None]]),
          Bucket({latest_model_key, model_key(1)},
                 [Stale EXCEPT ![latest_model_key] = [last_updated |-> 1]]) }

\* What one request of another party makes of the model bucket while
\* load_latest_model is between its two reads: an object removed, or a model
\* object put (a trainer's pickle, or a text object).
remove_object(bucket, key) == [k \in DOMAIN bucket \ {key} |-> bucket[k]]
ModelBucketWrites(bucket) ==
    {remove_object(bucket, k) : k \in DOMAIN bucket}
        \cup {upload_to_s3(object, bucket, model_key(t)) :
                 t \in {1, 2},
                 object \in {TextModel("second"), train_model(<<1, 2>>, <<1, 2>>).model}}

-----------------------------------------------------------------------------
(* Aggregator: analyze_predictions, analyze_historical_data and            *)
(* generate_insights of analyzer.py.  Means are kept in tenths, as         *)
(* .round(1) leaves them; the frames analysed hold finite percentages.     *)

\* A plain dict with no entries.
EmptyDict == [k \in {} |-> None]

\* The rows of a frame without their labels.
records(df) == [i \in 1..Len(df.rows) |-> df.rows[i].row]

RECURSIVE SumSeq(_)
SumSeq(values) == IF values = <<>> THEN 0 ELSE values[1] + SumSeq(Tail(values))

\* sorted(values) of a set of integers.
RECURSIVE sorted(_)
sorted(S) ==
    IF S = {} THEN <<>>
    ELSE LET least == CHOOSE v \in S : \A w \in S : v <= w
         IN  <<least>> \o sorted(S \ {least})

\* rows[column].value_counts().to_dict()
value_counts(rows, column) ==
    [v \in {rows[i][column] : i \in 1..Len(rows)} |->
       Cardinality({i \in 1..Len(rows) : rows[i][column] = v})]

\* The number in a row's column; a percentage is read in tenths.
number(row, column) ==
    IF column = "Percent_Change" THEN row.Percent_Change.tenths ELSE row[column]

\* The numbers of a column; scale (see column_values) is 10 for a column of
\* whole numbers and 1 for a column kept in tenths.
column_numbers(rows, column) == [i \in 1..Len(rows) |-> number(rows[i], column)]

\* rows[column].mean().round(1), in tenths: the double mean, rounded as numpy
\* rounds.
round_1_mean_table == [k \in PoolColumns |-> round_1(series_mean_table[k])]
mean(rows, column, scale) ==
    cached(round_1_mean_table, <<column_numbers(rows, column), scale>>,
           round_1(series_mean(column_numbers(rows, column), scale)))

\* The sum pandas' group_mean keeps for one group: Kahan summation,
\*   term = val - compensation; t = sumx + term;
\*   compensation = t - sumx - term; sumx = t.
RECURSIVE group_sum(_, _, _)
group_sum_next(rest, sumx, term, t) ==
    group_sum(rest, t, float_sub(float_sub(t, sumx), term))
group_sum_add(rest, sumx, term) == group_sum_next(rest, sumx, term, float_add(sumx, term))
group_sum(values, sumx, compensation) ==
    IF values = <<>> THEN sumx
    ELSE group_sum_add(Tail(values), sumx, float_sub(values[1], compensation))

\* The mean of one group, rounded: sumx / count, then round(1).
group_mean(numbers, scale) ==
    round_1(float_truediv(group_sum(column_values(numbers, scale), Zero, Zero),
                          float(Len(numbers))))
group_mean_table == [k \in PoolColumns |-> group_mean(k[1], k[2])]

\* rows.groupby(key)[column].mean().round(1).to_dict()
groupby_mean(rows, key, column, scale) ==
    [k \in {rows[i][key] : i \in 1..Len(rows)} |->
       cached(group_mean_table,
              <<column_numbers(SelectSeq(rows, LAMBDA r : r[key] = k), column), scale>>,
              group_mean(column_numbers(SelectSeq(rows, LAMBDA r : r[key] = k), column),
                         scale))]

\* The sequence without its i-th element.
without(seq, i) == SubSeq(seq, 1, i - 1) \o SubSeq(seq, i + 1, Len(seq))

\* rows.nlargest(n, column): the n rows of greatest value, greatest first,
\* rows of equal value in their order in the frame (keep='first').
RECURSIVE nlargest(_, _, _)
nlargest(n, rows, column) ==
    IF n <= 0 \/ rows = <<>> THEN <<>>
    ELSE LET first == CHOOSE i \in 1..Len(rows) :
                         \A j \in 1..Len(rows) :
                            \/ number(rows[i], column) > number(rows[j], column)
                            \/ /\ number(rows[i], column) = number(rows[j], column)
                               /\ i <= j
         IN  <<rows[first]>> \o nlargest(n - 1, without(rows, first), column)

\* rows.nsmallest(n, column)
RECURSIVE nsmallest(_, _, _)
nsmallest(n, rows, column) ==
    IF n <= 0 \/ rows = <<>> THEN <<>>
    ELSE LET first == CHOOSE i \in 1..Len(rows) :
                         \A j \in 1..Len(rows) :
                            \/ number(rows[i], column) < number(rows[j], column)
                            \/ /\ number(rows[i], column) = number(rows[j], column)
                               /\ i <= j
         IN  <<rows[first]>> \o nsmallest(n - 1, without(rows, first), column)

\* rows[column].value_counts().head(n).to_dict(): the n most frequent values
\* with their counts.  value_counts sorts the counts, taken in order of first
\* appearance, in descending order; the sort keeps values of equal count in
\* that order for the up to sixteen distinct values numpy sorts by insertion.
RECURSIVE most_frequent(_, _, _)
most_frequent(values, counts, n) ==
    IF n <= 0 \/ values = <<>> THEN {}
    ELSE LET first == CHOOSE i \in 1..Len(values) :
                         \A j \in 1..Len(values) :
                            \/ counts[values[i]] > counts[values[j]]
                            \/ counts[values[i]] = counts[values[j]] /\ i <= j
         IN  {values[first]} \cup most_frequent(without(values, first), counts, n - 1)
value_counts_head(rows, column, n) ==
    LET counts == value_counts(rows, column)
        kept == most_frequent(unique([i \in 1..Len(rows) |-> rows[i][column]]), counts, n)
    IN  [v \in kept |-> counts[v]]

\* f'{mean:.1f}' of the column's mean, in tenths.  The mean is the double
\* nearest to total/n and the format rounds that double correctly.  This is
\* the exact quotient rounded to the nearest tenth except where the quotient
\* is a half of a tenth, p/20 with p odd: when p/20 is a binary fraction
\* (5 divides p) the double is exact and the half goes to the even tenth;
\* otherwise the double lies below or above p/20 according to the remainder
\* of p * 2^s by 20, s the shift that makes p/20 a 53-bit integer.
pow2_mod20(s) == IF s = 0 THEN 1 ELSE IF s = 1 THEN 2 ELSE <<16, 12, 4, 8>>[(s % 4) + 1]
RECURSIVE binary_exponent(_, _)
binary_exponent(p, e) ==
    IF p < 20 THEN binary_exponent(2 * p, e - 1)
    ELSE IF p >= 40 THEN binary_exponent(p \div 2, e + 1)
    ELSE e
format_1f(total, n) ==
    LET magnitude == Abs(total)
        sign == IF total < 0 THEN -1 ELSE 1
        p == (20 * magnitude) \div n
        half == (20 * magnitude) % n = 0 /\ p % 2 = 1
        remainder == ((p % 20) * pow2_mod20(52 - binary_exponent(p, 0))) % 20
    IN  IF ~half \/ p % 5 = 0 THEN sign * RoundHalfEven(10 * magnitude, n)
        ELSE IF remainder < 10 THEN sign * ((p - 1) \div 2)
        ELSE sign * ((p + 1) \div 2)

\* [['Player', 'Position', 'Current_Points', 'Predicted_Next_Year',
\*   'Percent_Change', 'Confidence']].to_dict('records')
candidate_records(rows) ==
    [i \in 1..Len(rows) |->
       [Player |-> rows[i].Player, Position |-> rows[i].Position,
        Current_Points |-> rows[i].Current_Points,
        Predicted_Next_Year |-> rows[i].Predicted_Next_Year,
        Percent_Change |-> rows[i].Percent_Change, Confidence |-> rows[i].Confidence]]

\* Lines 12-29: the analysis of a frame of predictions.
predictions_analysis(rows) ==
    [position_breakdown |-> value_counts(rows, "Position"),
     avg_predicted_change_by_position |-> groupby_mean(rows, "Position", "Percent_Change", 1),
     top_10_breakout_candidates |-> candidate_records(nlargest(10, rows, "Percent_Change")),
     risk_candidates |-> candidate_records(nsmallest(10, rows, "Percent_Change")),
     age_analysis |->
        [avg_age_by_position |-> groupby_mean(rows, "Position", "Age", 10),
         experience_by_position |-> groupby_mean(rows, "Position", "Experience", 10)],
     confidence_analysis |->
        [avg_confidence |-> mean(rows, "Confidence", 1),
         confidence_by_position |-> groupby_mean(rows, "Position", "Confidence", 1)]]

\* analyze_predictions(predictions_df)
analyze_predictions(df) ==
    IF empty(df) THEN EmptyDict ELSE predictions_analysis(records(df))

\* [['Player', 'Position', 'Team', 'Fantasy_Points']].to_dict('records')
scorer_records(rows) ==
    [i \in 1..Len(rows) |->
       [Player |-> rows[i].Player, Position |-> rows[i].Position,
        Team |-> rows[i].Team, Fantasy_Points |-> rows[i].Fantasy_Points]]

\* A frame whose Year column is float64: built from records whose years are
\* written as reals.
with_real_years(df) ==
    [rows |-> df.rows, has_columns |-> df.has_columns, year_real |-> TRUE]

\* str(year) of a scalar of the Year column (line 61): '2020' for a numpy
\* int64, '2020.0' for a numpy float64.
str_year(year, dtype) ==
    IF dtype = "float64" THEN IntText(year) \o <<".", "0">> ELSE IntText(year)

\* Lines 38-67: the analysis of a frame of season records whose Year column
\* has the given dtype; the per-year scorers are keyed by str(year).
historical_analysis(rows, dtype) ==
    LET years == {rows[i].Year : i \in 1..Len(rows)}
        positions == {rows[i].Position : i \in 1..Len(rows)}
        of_year(year) == SelectSeq(rows, LAMBDA r : r.Year = year)
        of_position(position) == SelectSeq(rows, LAMBDA r : r.Position = position)
    IN  [data_overview |->
           [total_records |-> Len(rows),
            years_covered |-> sorted(years),
            positions |-> value_counts(rows, "Position"),
            teams |-> value_counts_head(rows, "Team", 10)],
         points_analysis |->
           [avg_points_by_year |-> groupby_mean(rows, "Year", "Fantasy_Points", 10),
            avg_points_by_position |-> groupby_mean(rows, "Position", "Fantasy_Points", 10),
            top_scorers_by_year |->
               [text \in {str_year(year, dtype) : year \in years} |->
                  LET year == CHOOSE v \in years : str_year(v, dtype) = text
                  IN  scorer_records(nlargest(5, of_year(year), "Fantasy_Points"))]],
         trends |->
           [points_trend_by_position |->
               [position \in positions |->
                  groupby_mean(of_position(position), "Year", "Fantasy_Points", 10)]]]

\* Mutant: the analysis computed whether or not the frame has rows.
analyze_historical_data_unguarded(df) == historical_analysis(records(df), year_dtype(df))

\* analyze_historical_data(historical_data)
analyze_historical_data(df) ==
    IF empty(df) THEN EmptyDict ELSE historical_analysis(records(df), year_dtype(df))

\* Lines 75-90: the four insights drawn from a frame of predictions.  Which
\* of several equally frequent positions value_counts lists first is not
\* fixed, so every one of them is a possible first insight.
prediction_insights(rows) ==
    LET pos_breakdown == value_counts(rows, "Position")
        top_breakout == nlargest(1, rows, "Percent_Change")[1]
        top_risk == nsmallest(1, rows, "Percent_Change")[1]
    IN  { << [insight |-> "dominated", position |-> first, players |-> pos_breakdown[first]],
             [insight |-> "breakout", player |-> top_breakout.Player,
              position |-> top_breakout.Position,
              percent |-> top_breakout.Percent_Change],
             [insight |-> "risk", player |-> top_risk.Player,
              position |-> top_risk.Position, percent |-> top_risk.Percent_Change],
             [insight |-> "average age",
              tenths |-> format_1f(SumSeq([i \in 1..Len(rows) |-> rows[i].Age]),
                                   Len(rows))] >> :
          first \in {p \in DOMAIN pos_breakdown :
                       \A q \in DOMAIN pos_breakdown : pos_breakdown[p] >= pos_breakdown[q]} }

\* Lines 92-100: the trend insight over the last three seasons on record,
\* when there are at least two.
historical_insights(rows) ==
    LET years == sorted({rows[i].Year : i \in 1..Len(rows)})
        recent_years == SubSeq(years, Max(Len(years) - 3, 0) + 1, Len(years))
        points_of(year) == SelectSeq(rows, LAMBDA r : r.Year = year)
        first == points_of(recent_years[1])
        last == points_of(recent_years[Len(recent_years)])
        total(data) == SumSeq([i \in 1..Len(data) |-> data[i].Fantasy_Points])
    IN  IF Len(recent_years) >= 2
        THEN << [insight |-> "trend",
                 direction |-> IF total(last) * Len(first) > total(first) * Len(last)
                               THEN "increasing" ELSE "decreasing",
                 years |-> Len(recent_years)] >>
        ELSE <<>>

\* generate_insights(predictions_df, historical_data): the possible lists.
generate_insights(pdf, hdf) ==
    LET from_predictions == IF ~empty(pdf) THEN prediction_insights(records(pdf))
                            ELSE {<<>>}
        from_history == IF ~empty(hdf) THEN historical_insights(records(hdf)) ELSE <<>>
    IN  {ins \o from_history : ins \in from_predictions}

\* Frames the aggregator is applied to: prediction sets and season records.
AnalysisHistory ==
    { Rec("a", "QB", "T1", 100, 2020), Rec("a", "QB", "T1", 150, 2021),
      Rec("b", "RB", "T2", 53, 2020),  Rec("c", "TE", "T2", 75, 2022) }
PredictionFrames == {DataFrame(s) : s \in SeqUpTo(PredictionPool, MaxRecords - 1)}
HistoricalFrames ==
    LET Frames == {DataFrame(s) : s \in SeqUpTo(AnalysisHistory, MaxRecords - 1)}
    IN  Frames \cup {with_real_years(df) : df \in {f \in Frames : ~empty(f)}}

-----------------------------------------------------------------------------
(* Analyzer handler: lambda_handler of analyzer.py *)

\* dict.get(key, default)
get(dict, key, default) == IF key \in DOMAIN dict THEN dict[key] ELSE default

\* "if data:" on what download_from_s3 returned: None, an empty list and an
\* empty object are false.
truthy(data) ==
    /\ data # None
    /\ IF data.list THEN Len(data.items) > 0 ELSE DOMAIN data.item # {}

\* pd.DataFrame(data) for a list, pd.DataFrame([data]) for a single object.
frame_of(data) ==
    IF ~data.list THEN DataFrame(<<data.item>>)
    ELSE IF year_dtype(data) = "float64" THEN with_real_years(DataFrame(data.items))
    ELSE DataFrame(data.items)

\* Lines 129-139: the predictions entry of the result, from what the read
\* of the predictions object returned.
analyzer_predictions_entry(predictions_data) ==
    IF truthy(predictions_data)
    THEN analyze_predictions(frame_of(predictions_data))
    ELSE [error |-> "No predictions data found"]

\* Lines 154-162: the historical entry of the result, from what the read of
\* the latest raw data object returned.
analyzer_historical_entry(raw_data) ==
    IF truthy(raw_data)
    THEN analyze_historical_data(frame_of(raw_data))
    ELSE [error |-> "No historical data found"]

\* json.dumps of the result in create_response (line 186): years_covered is
\* a list of scalars of the Year column, and a numpy int64 is not JSON
\* serializable.
serializable(body, dtype) ==
    ~ /\ "historical_analysis" \in DOMAIN body
      /\ "data_overview" \in DOMAIN body["historical_analysis"]
      /\ dtype = "int64"

\* Query strings the analyzer is sent.
AnalysisTypes == {"all", "predictions", "historical", "insights", "summary"}
AnalyzerEvents ==
    {[k \in {} |-> <<>>]}
        \cup {[k \in {"queryStringParameters"} |-> [type |-> t]] : t \in AnalysisTypes}

\* One invocation of the analyzer: where it stands, its locals and what it
\* returned.  predictions_df and historical_df are the frames it handed to
\* generate_insights.
IdleAnalyzer ==
    [pc |-> "idle", analysis_type |-> "all", current_year |-> 0,
     analysis_results |-> EmptyDict, latest_file |-> None, year_dtype |-> "int64",
     predictions_df |-> DataFrame(<<>>), historical_df |-> DataFrame(<<>>),
     response |-> None]

\* The result with one more entry.
with_entry(dict, key, entry) ==
    [k \in DOMAIN dict \cup {key} |-> IF k = key THEN entry ELSE dict[k]]

\* Lines 168-189, after the last read of the store: the insights, the
\* metadata and the response.  The frames for generate_insights are looked
\* up in the two analyses, which hold none.
analyzer_completed(this, now) ==
    LET EmptyFrame == DataFrame(<<>>)
        with_insights == this.analysis_type \in {"all", "insights"}
        insights_predictions ==
            get(get(this.analysis_results, "predictions_analysis", EmptyDict),
                "predictions_df", EmptyFrame)
        insights_historical ==
            get(get(this.analysis_results, "historical_analysis", EmptyDict),
                "historical_df", EmptyFrame)
        metadata_entry ==
            [analysis_timestamp |-> now, analysis_type |-> this.analysis_type,
             current_year |-> this.current_year]
        body(insights) ==
            with_entry(IF with_insights
                       THEN with_entry(this.analysis_results, "insights", insights)
                       ELSE this.analysis_results,
                       "metadata", metadata_entry)
    IN  {[this EXCEPT
             !.pc = "returned",
             !.analysis_results = body(insights),
             !.predictions_df = IF with_insights THEN insights_predictions ELSE EmptyFrame,
             !.historical_df = IF with_insights THEN insights_historical ELSE EmptyFrame,
             !.response = IF serializable(body(insights), this.year_dtype)
                          THEN create_response(200, body(insights))
                          ELSE create_response(500, [error |-> "TypeError"])] :
           insights \in IF with_insights
                        THEN generate_insights(insights_predictions, insights_historical)
                        ELSE {<<>>}}

\* Line 144: on to the raw data when the analysis type asks for it.
analyzer_to_historical(this, now) ==
    IF this.analysis_type \in {"all", "historical", "insights"}
    THEN {[this EXCEPT !.pc = "list"]}
    ELSE analyzer_completed(this, now)

\* Lines 109-125, up to the first read of the store.
analyzer_entry(ev, env, year, now) ==
    LET query_params == get(ev, "queryStringParameters", EmptyDict)
        this == [IdleAnalyzer EXCEPT !.analysis_type = get(query_params, "type", "all"),
                                     !.current_year = year]
    IN  IF ~env.S3_BUCKET \/ ~env.MODEL_BUCKET THEN
            {[this EXCEPT
                 !.pc = "returned",
                 !.response =
                    create_response(500,
                       [error |-> "S3_BUCKET or MODEL_BUCKET environment variable not set"])]}
        ELSE IF this.analysis_type \in {"all", "predictions", "insights"}
        THEN {[this EXCEPT !.pc = "get_predictions"]}
        ELSE analyzer_to_historical(this, now)

\* Lines 129-141: the read of the predictions object has returned.
analyzer_predictions_read(this, predictions_data, now) ==
    analyzer_to_historical(
       [this EXCEPT !.analysis_results =
                       with_entry(@, "predictions_analysis",
                                  analyzer_predictions_entry(predictions_data))],
       now)

\* Lines 148-151 and 165: the listing of the raw data objects has returned.
analyzer_listed(this, raw_data_files, now) ==
    IF raw_data_files = {}
    THEN analyzer_completed(
            [this EXCEPT !.analysis_results =
                            with_entry(@, "historical_analysis",
                                       [error |-> "No historical data files found"])],
            now)
    ELSE {[this EXCEPT !.pc = "download", !.latest_file = latest_file(raw_data_files)]}

\* Lines 152-163: the read of the latest raw data object has returned.
analyzer_downloaded(this, raw_data, now) ==
    analyzer_completed(
       [this EXCEPT !.analysis_results =
                       with_entry(@, "historical_analysis",
                                  analyzer_historical_entry(raw_data)),
                    !.year_dtype = IF raw_data = None THEN @ ELSE year_dtype(raw_data)],
       now)

\* What the data bucket may hold when the analyzer runs: a predictions object
\* or none, and raw data objects or none.
AnalyzerBuckets ==
    LET Predicted ==
            {[k \in {} |-> None]}
                \cup {[k \in {predictions_key(2024)} |-> obj] :
                        obj \in {JsonList(<<>>)}
                                  \cup {JsonList(s) : s \in [1..2 -> PredictionPool]}
                                  \cup {JsonObject(item) : item \in PredictionPool}
                                  \cup {JsonObject(EmptyDict)}}
        Merge(f, g) == [k \in DOMAIN f \cup DOMAIN g |-> IF k \in DOMAIN f THEN f[k] ELSE g[k]]
    IN  {Merge(p, r) : p \in Predicted, r \in RawBuckets}

\* What one request of another party makes of the data bucket while the
\* analyzer is between two of its requests: the predictions object or a raw
\* data object removed, or a raw data object put.
DataBucketWrites(bucket) ==
    {remove_object(bucket, k) : k \in DOMAIN bucket}
        \cup {upload_to_s3(JsonList(TwoSeasons), bucket, raw_data_key(t)) : t \in RawStamps}

-----------------------------------------------------------------------------
(* The state machine: each run feeds one input to one operation *)

NoTraining == historical_data = <<>> /\ X = <<>> /\ y = <<>> /\ player_info = <<>>
NoPrediction ==
    /\ current_year_data = <<>> /\ model = "none" /\ top_n = 0
    /\ X_pred = <<>> /\ predictions = <<>> /\ results_df = <<>> /\ results = <<>>
NoQuery ==
    /\ environ = [S3_BUCKET |-> FALSE, MODEL_BUCKET |-> FALSE]
    /\ data_bucket = [k \in {} |-> None]
    /\ event = [k \in {} |-> <<>>] /\ context = LambdaContext /\ s3_call_ok = TRUE
    /\ predictions_df = DataFrame(<<>>) /\ response = None

Seeds == {[seq |-> s, pos |-> 1] : s \in RngStreams}

\* No trainer invocation yet: an empty model bucket, every invocation to come.
Instances == {1, 2}
IdleRun ==
    [pc |-> "idle", body |-> None, key |-> None, records |-> -1, samples |-> -1,
     model |-> None,
     metrics |-> None, player_info |-> <<>>, year_dtype |-> "int64",
     timestamp |-> -1, response |-> None]
NoStore ==
    /\ model_bucket = [k \in {} |-> None]
    /\ clock = 0
    /\ run = [i \in Instances |-> IdleRun]
NoLoad == loaded = <<None, None>>
NoAnalysis ==
    /\ analyzer_predictions_df = DataFrame(<<>>)
    /\ historical_df = DataFrame(<<>>)
    /\ analysis_results = None

InitTraining ==
    /\ pc = "train"
    /\ \E d \in SeqUpTo(HistoricalPool, MaxRecords) :
          /\ historical_data = d
          /\ X = <<>> /\ y = <<>> /\ player_info = <<>>
    /\ rng \in Seeds
    /\ current_year = 0
    /\ NoPrediction /\ NoQuery /\ NoStore /\ NoLoad /\ NoAnalysis

InitPrediction ==
    /\ pc = "predict"
    /\ \E d \in SeqUpTo(CurrentPool, MaxRecords) :
          /\ current_year_data = d
          /\ model = "none" /\ top_n = 0
          /\ X_pred = <<>> /\ predictions = <<>> /\ results_df = <<>> /\ results = <<>>
    /\ rng \in Seeds
    /\ current_year = 0
    /\ NoTraining /\ NoQuery /\ NoStore /\ NoLoad /\ NoAnalysis

InitQuery ==
    /\ pc = "query"
    /\ environ \in {[S3_BUCKET |-> b, MODEL_BUCKET |-> TRUE] : b \in BOOLEAN}
    /\ data_bucket \in PredictionBuckets
    /\ event \in Events
    /\ context \in Contexts
    /\ s3_call_ok = TRUE
    /\ predictions_df = DataFrame(<<>>)
    /\ response = None
    /\ rng = [seq |-> <<0>>, pos |-> 1]
    /\ current_year = 0
    /\ NoTraining /\ NoPrediction /\ NoStore /\ NoLoad /\ NoAnalysis

InitLoad ==
    /\ pc = "load"
    /\ model_bucket \in ModelBuckets
    /\ clock = 0
    /\ run = [i \in Instances |-> IdleRun]
    /\ rng = [seq |-> <<0>>, pos |-> 1]
    /\ current_year = 0
    /\ NoTraining /\ NoPrediction /\ NoQuery /\ NoLoad /\ NoAnalysis

InitAnalysis ==
    /\ pc = "analyze"
    /\ analyzer_predictions_df \in PredictionFrames
    /\ historical_df \in HistoricalFrames
    /\ analysis_results = None
    /\ rng = [seq |-> <<0>>, pos |-> 1]
    /\ current_year = 0
    /\ NoTraining /\ NoPrediction /\ NoQuery /\ NoStore /\ NoLoad

InitAnalyzer ==
    /\ pc = "analyzer"
    /\ environ \in [{"S3_BUCKET", "MODEL_BUCKET"} -> BOOLEAN]
    /\ data_bucket \in AnalyzerBuckets
    /\ event \in AnalyzerEvents
    /\ context \in Contexts
    /\ s3_call_ok = TRUE
    /\ predictions_df = DataFrame(<<>>)
    /\ response = None
    /\ rng = [seq |-> <<0>>, pos |-> 1]
    /\ current_year = 0
    /\ model_bucket = [k \in {} |-> None]
    /\ clock = 0
    /\ run = [a \in {"analyzer"} |-> IdleAnalyzer]
    /\ NoTraining /\ NoPrediction /\ NoLoad /\ NoAnalysis

Init ==
    \/ InitTraining \/ InitPrediction \/ InitQuery \/ InitLoad \/ InitAnalysis
    \/ InitAnalyzer

PrepareTrainingData ==
    /\ pc = "train"
    /\ \E out \in prepare_training_data(historical_data, rng) :
          /\ X' = out.X
          /\ y' = out.y
          /\ player_info' = out.player_info
          /\ rng' = out.rng
    /\ pc' = "trained"
    /\ UNCHANGED <<historical_data, current_year, predictionVars, queryVars, storeVars,
                   loadVars, analysisVars>>

MakePredictions ==
    /\ pc = "predict"
    /\ \E m \in Models, n \in TopNs, year \in ClockYears :
          \E out \in make_predictions(m, current_year_data, n, year, rng) :
             /\ model' = m
             /\ top_n' = n
             /\ current_year' = year
             /\ X_pred' = out.X_pred
             /\ predictions' = out.predictions
             /\ results_df' = out.results_df
             /\ results' = out.results
             /\ rng' = out.rng
    /\ pc' = "predicted"
    /\ UNCHANGED <<current_year_data, trainingVars, queryVars, storeVars, loadVars,
                   analysisVars>>

\* predictor.lambda_handler(event, context): log_event at line 129, outside
\* the try block, then the guarded body; what log_event raises leaves the
\* handler without a response.
PredictorHandler ==
    /\ pc = "query"
    /\ IF log_event(event, context).raised
       THEN /\ pc' = "raised"
            /\ UNCHANGED <<current_year, s3_call_ok, response, predictions_df>>
       ELSE /\ \E year \in ClockYears, callOk \in BOOLEAN :
                  \E out \in predictor_lambda_handler(event, environ, data_bucket, year,
                                                     callOk) :
                     /\ current_year' = year
                     /\ s3_call_ok' = callOk
                     /\ response' = out.response
                     /\ predictions_df' = out.predictions_df
            /\ pc' = "responded"
    /\ UNCHANGED <<rng, environ, data_bucket, event, context, trainingVars, predictionVars,
                   storeVars, loadVars, analysisVars>>

\* load_latest_model up to its first read.
LoadLatestReference ==
    /\ pc = "load"
    /\ \E refOk \in BOOLEAN :
          LET latest_ref == load_latest_model_reference(model_bucket, refOk)
          IN  IF latest_ref = None
              THEN loaded' = <<None, None>> /\ pc' = "loaded"
              ELSE loaded' = <<None, latest_ref>> /\ pc' = "load_model"
    /\ UNCHANGED <<rng, current_year, trainingVars, predictionVars, queryVars, storeVars,
                   analysisVars>>

\* A request of another party reaches the store between the two reads.
ModelBucketWrite ==
    /\ pc = "load_model"
    /\ model_bucket' \in ModelBucketWrites(model_bucket) \ {model_bucket}
    /\ UNCHANGED <<pc, rng, current_year, trainingVars, predictionVars, queryVars,
                   clock, run, loadVars, analysisVars>>

\* load_latest_model from its second read to its return.
LoadLatestModel ==
    /\ pc = "load_model"
    /\ \E modelOk \in BOOLEAN, loadsOk \in BOOLEAN :
          loaded' = load_latest_model(model_bucket, loaded[2], modelOk, loadsOk)
    /\ pc' = "loaded"
    /\ UNCHANGED <<rng, current_year, trainingVars, predictionVars, queryVars, storeVars,
                   analysisVars>>

\* The aggregator's three functions applied to a pair of frames.
Analyze ==
    /\ pc = "analyze"
    /\ \E insights \in generate_insights(analyzer_predictions_df, historical_df) :
          analysis_results' =
             [predictions_analysis |-> analyze_predictions(analyzer_predictions_df),
              historical_analysis |-> analyze_historical_data(historical_df),
              insights |-> insights]
    /\ pc' = "analyzed"
    /\ UNCHANGED <<analyzer_predictions_df, historical_df, rng, current_year, trainingVars,
                   predictionVars, queryVars, storeVars, loadVars>>

\* analyzer.lambda_handler(event, context): log_event at line 106, outside
\* the try block, then the guarded body.
\* Everything but the invocations in progress.
exceptRun ==
    <<pc, rng, current_year, trainingVars, predictionVars, queryVars, model_bucket, clock,
      loadVars, analysisVars>>

\* The analyzer is invoked: log_event, which raises outside the try block on
\* a context it cannot print, then lines 109-125.
AnalyzerInvoke(a, events, contexts, years) ==
    /\ run[a].pc = "idle"
    /\ \E ev \in events, ctx \in contexts :
          IF log_event(ev, ctx).raised
          THEN run' = [run EXCEPT ![a] = [IdleAnalyzer EXCEPT !.pc = "raised"]]
          ELSE \E year \in years :
                  \E that \in analyzer_entry(ev, environ, year, clock) :
                     run' = [run EXCEPT ![a] = that]
    /\ UNCHANGED exceptRun

\* The analyzer's three requests to the store, one step each.
AnalyzerGetPredictions(a) ==
    /\ run[a].pc = "get_predictions"
    /\ \E callOk \in BOOLEAN :
          \E that \in analyzer_predictions_read(
                         run[a],
                         download_from_s3(data_bucket,
                                          predictions_key(run[a].current_year), callOk),
                         clock) :
             run' = [run EXCEPT ![a] = that]
    /\ UNCHANGED exceptRun

AnalyzerListRawData(a) ==
    /\ run[a].pc = "list"
    /\ \E callOk \in BOOLEAN :
          \E that \in analyzer_listed(run[a],
                                      list_s3_objects(data_bucket, "raw_data/", callOk),
                                      clock) :
             run' = [run EXCEPT ![a] = that]
    /\ UNCHANGED exceptRun

AnalyzerDownload(a) ==
    /\ run[a].pc = "download"
    /\ \E callOk \in BOOLEAN :
          \E that \in analyzer_downloaded(
                         run[a], download_from_s3(data_bucket, run[a].latest_file, callOk),
                         clock) :
             run' = [run EXCEPT ![a] = that]
    /\ UNCHANGED exceptRun

\* One analyzer invocation on a bucket other parties write to.
AnalyzerHandler == pc = "analyzer" /\ AnalyzerInvoke("analyzer", {event}, {context}, ClockYears)
AnalyzerPredictions == pc = "analyzer" /\ AnalyzerGetPredictions("analyzer")
AnalyzerRawDataList == pc = "analyzer" /\ AnalyzerListRawData("analyzer")
AnalyzerRawData == pc = "analyzer" /\ AnalyzerDownload("analyzer")

\* A request of another party reaches the data bucket between two requests
\* of the analyzer.
DataBucketWrite ==
    /\ pc = "analyzer"
    /\ run["analyzer"].pc \in {"list", "download"}
    /\ data_bucket' \in DataBucketWrites(data_bucket) \ {data_bucket}
    /\ UNCHANGED <<pc, rng, current_year, trainingVars, predictionVars, environ, event,
                   context, s3_call_ok, predictions_df, response, storeVars, loadVars,
                   analysisVars>>

Next ==
    \/ PrepareTrainingData \/ MakePredictions \/ PredictorHandler
    \/ LoadLatestReference \/ ModelBucketWrite \/ LoadLatestModel
    \/ Analyze
    \/ AnalyzerHandler \/ AnalyzerPredictions \/ AnalyzerRawDataList \/ AnalyzerRawData
    \/ DataBucketWrite

Spec == Init /\ [][Next]_vars

-----------------------------------------------------------------------------
(* model_trainer.lambda_handler over the two buckets.  Every call to the    *)
(* store is a step of its own, so invocations on separate Lambda instances  *)
(* interleave between calls, and every call may fail.                       *)

Returned(this, status_code, body) ==
    [this EXCEPT !.pc = "returned", !.response = create_response(status_code, body)]
Failed(this, status_code, message) == Returned(this, status_code, [error |-> message])

\* Lines 130-161 up to the first call to the store.
trainer_entry(body, env) ==
    LET this == [IdleRun EXCEPT !.body = body]
        data_source == IF body = None THEN <<"latest">> ELSE body.data_source
    IN  IF ~env.S3_BUCKET \/ ~env.MODEL_BUCKET THEN
            Failed(this, 500, "S3_BUCKET or MODEL_BUCKET environment variable not set")
        ELSE IF body # None /\ ~body.valid THEN
            Failed(this, 400, "Invalid JSON in request body")
        ELSE IF data_source = <<"latest">> THEN [this EXCEPT !.pc = "list"]
        ELSE [this EXCEPT !.pc = "download", !.key = data_source]

\* Lines 153-158.
trainer_listed(this, raw_data_files) ==
    IF raw_data_files = {} THEN Failed(this, 500, "No raw data found in S3")
    ELSE [this EXCEPT !.pc = "download", !.key = latest_file(raw_data_files)]

\* Lines 163-191: from the downloaded object to the serialized model.
\* records is len(historical_data) of line 171.  An empty list makes a frame
\* without a 'Player' column, which prepare_training_data cannot index.  joblib.dumps is looked up in the
\* installed joblib when line 191 runs and raises where it is not provided.
trainer_trained(this, downloaded, r, now, dumpsOk) ==
    IF downloaded = None THEN
        {Failed(this, 500, "Failed to download training data from S3")}
    ELSE IF Len(downloaded.items) = 0 THEN
        {Failed([this EXCEPT !.records = 0], 500, "KeyError")}
    ELSE
        { LET that == [this EXCEPT !.records = Len(downloaded.items),
                                   !.samples = Len(out.X),
                                   !.player_info = out.player_info,
                                   !.year_dtype = year_dtype(downloaded)]
          IN  IF insufficient_data(out.X) THEN
                  Failed(that, 500, "No valid training data found")
              ELSE IF ~train_model(out.X, out.y).ok THEN
                  Failed(that, 500, "ValueError")
              ELSE IF ~dumpsOk THEN
                  Failed(that, 500, "AttributeError")
              ELSE [that EXCEPT !.pc = "upload_model", !.timestamp = now,
                                !.model = train_model(out.X, out.y).model,
                                !.metrics = train_model(out.X, out.y).metrics]
          : out \in prepare_training_data(downloaded.items, r) }

\* Lines 218-226.
trainer_completed(this) ==
    Returned(this, 200,
             [message |-> "Model training completed successfully",
              model_info |-> [model_key |-> model_key(this.timestamp),
                              metadata_key |-> metadata_key(this.timestamp),
                              training_samples |-> this.samples,
                              metrics |-> this.metrics]])

DataSourceOf(this) == IF this.body = None THEN <<"latest">> ELSE this.body.data_source

InitStore ==
    /\ pc = "store"
    /\ environ \in [{"S3_BUCKET", "MODEL_BUCKET"} -> BOOLEAN]
    /\ data_bucket \in RawBuckets
    /\ event = [k \in {} |-> <<>>] /\ context = LambdaContext /\ s3_call_ok = TRUE
    /\ predictions_df = DataFrame(<<>>) /\ response = None
    /\ rng = [seq |-> <<0>>, pos |-> 1]
    /\ current_year = 0
    /\ NoTraining /\ NoPrediction /\ NoStore /\ NoLoad /\ NoAnalysis

harnessVars ==
    <<pc, rng, current_year, trainingVars, predictionVars, queryVars, loadVars,
      analysisVars>>

\* datetime.now() moves on between any two steps.
Tick ==
    /\ pc = "store"
    /\ clock < MaxClock
    /\ clock' = clock + 1
    /\ UNCHANGED <<harnessVars, model_bucket, run>>

TrainerInvokeWith(i, bodies, contexts) ==
    /\ pc = "store"
    /\ run[i].pc = "idle"
    /\ \E body \in bodies, ctx \in contexts :
          run' = [run EXCEPT ![i] =
                     IF log_event([body |-> body], ctx).raised
                     THEN [IdleRun EXCEPT !.pc = "raised", !.body = body]
                     ELSE trainer_entry(body, environ)]
    /\ UNCHANGED <<harnessVars, model_bucket, clock>>

TrainerInvoke(i) == TrainerInvokeWith(i, TrainerBodies, Contexts)

TrainerListRawData(i) ==
    /\ pc = "store"
    /\ run[i].pc = "list"
    /\ \E callOk \in BOOLEAN :
          run' = [run EXCEPT ![i] =
                     trainer_listed(@, list_s3_objects(data_bucket, "raw_data/", callOk))]
    /\ UNCHANGED <<harnessVars, model_bucket, clock>>

TrainerDownloadAndFitWith(i, seeds) ==
    /\ pc = "store"
    /\ run[i].pc = "download"
    /\ \E callOk \in BOOLEAN, r \in seeds, dumpsOk \in BOOLEAN :
          \E that \in trainer_trained(run[i], download_from_s3(data_bucket, run[i].key, callOk),
                                      r, clock, dumpsOk) :
             run' = [run EXCEPT ![i] = that]
    /\ UNCHANGED <<harnessVars, model_bucket, clock>>

TrainerDownloadAndFit(i) == TrainerDownloadAndFitWith(i, Seeds)

\* One upload_to_s3 call of lines 192, 207 and 216.  A dict that json.dumps
\* cannot serialize raises before the store is called.  Otherwise put_object
\* is called: on success the object is in the bucket and the handler moves
\* on.  Every raise is caught at line 228.
TrainerUpload(i, at, key, data, after) ==
    /\ pc = "store"
    /\ run[i].pc = at
    /\ IF ~json_serializable(data)
       THEN /\ model_bucket' = model_bucket
            /\ run' = [run EXCEPT ![i] = Failed(@, 500, "TypeError")]
       ELSE \E callOk \in BOOLEAN :
               IF callOk
               THEN /\ model_bucket' = upload_to_s3(data, model_bucket, key)
                    /\ run' = [run EXCEPT ![i] = after]
               ELSE /\ model_bucket' = model_bucket
                    /\ run' = [run EXCEPT ![i] = Failed(@, 500, "ClientError")]
    /\ UNCHANGED <<harnessVars, clock>>

TrainerUploadModel(i) ==
    TrainerUpload(i, "upload_model", model_key(run[i].timestamp), run[i].model,
                  [run[i] EXCEPT !.pc = "upload_metadata"])

TrainerUploadMetadata(i) ==
    TrainerUpload(i, "upload_metadata", metadata_key(run[i].timestamp),
                  metadata(run[i], DataSourceOf(run[i])),
                  [run[i] EXCEPT !.pc = "upload_latest"])

TrainerUploadLatest(i) ==
    TrainerUpload(i, "upload_latest", latest_model_key,
                  latest_model_ref(run[i].timestamp),
                  trainer_completed(run[i]))

NextStore ==
    \/ Tick
    \/ \E i \in Instances : TrainerInvoke(i)
    \/ \E i \in Instances : TrainerListRawData(i)
    \/ \E i \in Instances : TrainerDownloadAndFit(i)
    \/ \E i \in Instances : TrainerUploadModel(i)
    \/ \E i \in Instances : TrainerUploadMetadata(i)
    \/ \E i \in Instances : TrainerUploadLatest(i)

SpecStore == InitStore /\ [][NextStore]_vars

-----------------------------------------------------------------------------
(* data_scraper.lambda_handler *)

\* Mutant: the current season's records stored under the predictions key.
current_data_key_predictions(year) == <<"predictions/fantasy_predictions_", year, ".json">>

current_data_key(year) == <<"current_year/", "fantasy_stats_", year, ".json">>

summary_key(stamp) == <<"summaries/", "scrape_summary_", stamp, ".json">>

\* The site as the scraper finds it: the table rows of each season whose
\* page can be fetched and parsed.
Row(p, pos, team, pts) ==
    [Player |-> p, Position |-> pos, Team |-> team, Fantasy_Points |-> pts]
SiteDown == [year \in {} |-> <<>>]
SiteUp ==
    [year \in {2022, 2023, 2024} |->
       IF year = 2024 THEN << Row("a", "QB", "T2", 120), Row("b", "RB", "T1", 53) >>
       ELSE IF year = 2023 THEN << Row("a", "QB", "T1", 150) >>
       ELSE << Row("a", "QB", "T1", 100) >>]
Sites == {SiteDown, SiteUp}

\* scrape_nfl_stats(year): the season's frame, or an empty frame when the
\* request or the parse fails.
scrape_nfl_stats(year, site) ==
    IF year \in DOMAIN site
    THEN [i \in 1..Len(site[year]) |->
            Rec(site[year][i].Player, site[year][i].Position, site[year][i].Team,
                site[year][i].Fantasy_Points, year)]
    ELSE <<>>

\* scrape_historical_data(years): the seasons' frames, in the order asked.
RECURSIVE scrape_historical_data(_, _)
scrape_historical_data(years, site) ==
    IF years = <<>> THEN <<>>
    ELSE scrape_nfl_stats(years[1], site) \o scrape_historical_data(Tail(years), site)

\* The request body after json.loads: absent, not JSON, or naming the years.
InvalidScrape == [valid |-> FALSE, years |-> <<>>]
ScraperBodies == {None, InvalidScrape, [valid |-> TRUE, years |-> <<2024>>]}

\* One invocation of the scraper: where it stands, its locals while it runs
\* and, once it has ended, what it returned.
IdleScraper ==
    [pc |-> "idle", body |-> None, current_year |-> 0, years |-> <<>>,
     historical_df |-> <<>>, timestamp |-> -1, response |-> None]

\* historical_df[historical_df['Year'] == current_year]
scraper_current_year_data(this) ==
    SelectSeq(this.historical_df, LAMBDA r : r.Year = this.current_year)

\* Lines 146-156.
scraper_summary(this) ==
    [timestamp |-> this.timestamp, years_scraped |-> this.years,
     total_players |-> Len(this.historical_df),
     players_by_year |-> value_counts(this.historical_df, "Year"),
     players_by_position |-> value_counts(this.historical_df, "Position"),
     s3_keys |-> [raw_data |-> raw_data_key(this.timestamp),
                  current_year |-> IF scraper_current_year_data(this) # <<>>
                                   THEN current_data_key(this.current_year)
                                   ELSE None]]

\* Lines 106-136, up to the first upload: the site is read in year `year`
\* and the stamp of the keys is taken at second `now`.
scraper_entry(body, env, site, year, now) ==
    LET this == [IdleScraper EXCEPT !.body = body]
        years == IF body = None THEN <<year, year - 1, year - 2, year - 3, year - 4>>
                 ELSE body.years
        scraped == scrape_historical_data(years, site)
        Return(status_code, message) ==
            [IdleScraper EXCEPT !.pc = "returned",
                                !.response =
                                   create_response(status_code, [error |-> message])]
    IN  IF ~env.S3_BUCKET THEN
            Return(500, "S3_BUCKET environment variable not set")
        ELSE IF body # None /\ ~body.valid THEN
            Return(400, "Invalid JSON in request body")
        ELSE IF scraped = <<>> THEN
            Return(500, "No data was scraped successfully")
        ELSE [this EXCEPT !.pc = "upload_raw", !.current_year = year, !.years = years,
                          !.historical_df = scraped, !.timestamp = now]

\* Lines 140-143: after the raw data, the current season's records when
\* there are any.
scraper_raw_uploaded(this) ==
    [this EXCEPT !.pc = IF scraper_current_year_data(this) # <<>>
                        THEN "upload_current" ELSE "upload_summary"]

\* Lines 162-165.
scraper_completed(this) ==
    [IdleScraper EXCEPT
        !.pc = "returned",
        !.response =
                    create_response(200,
                       [message |-> "Data scraping completed successfully",
                        summary |-> scraper_summary(this)])]

\* Everything but the invocations in progress and the data bucket.
exceptRunAndData ==
    <<pc, rng, current_year, trainingVars, predictionVars, environ, event, context,
      s3_call_ok, predictions_df, response, model_bucket, clock, loadVars, analysisVars>>

\* The scraper is invoked: log_event, then lines 106-136.
ScraperInvoke(i, bodies, contexts, sites, years) ==
    /\ run[i].pc = "idle"
    /\ \E body \in bodies, ctx \in contexts :
          IF log_event([body |-> body], ctx).raised
          THEN run' = [run EXCEPT ![i] = [IdleScraper EXCEPT !.pc = "raised"]]
          ELSE \E site \in sites, year \in years :
                  run' = [run EXCEPT ![i] = scraper_entry(body, environ, site, year, clock)]
    /\ UNCHANGED exceptRun

\* One upload_to_s3 call of lines 137, 143 and 160: on success the object is
\* in the bucket and the handler moves on; a raise is caught at line 167.
ScraperUpload(i, at, key, data, after) ==
    /\ run[i].pc = at
    /\ \E callOk \in BOOLEAN :
          IF callOk
          THEN /\ data_bucket' = upload_to_s3(data, data_bucket, key)
               /\ run' = [run EXCEPT ![i] = after]
          ELSE /\ data_bucket' = data_bucket
               /\ run' = [run EXCEPT ![i] =
                             [IdleScraper EXCEPT
                                 !.pc = "returned",
                                 !.response =
                                    create_response(500, [error |-> "ClientError"])]]
    /\ UNCHANGED exceptRunAndData

ScraperUploadRawData(i) ==
    ScraperUpload(i, "upload_raw", raw_data_key(run[i].timestamp),
                  JsonList(run[i].historical_df), scraper_raw_uploaded(run[i]))

ScraperUploadCurrentYear(i) ==
    ScraperUpload(i, "upload_current", current_data_key(run[i].current_year),
                  JsonList(scraper_current_year_data(run[i])),
                  [run[i] EXCEPT !.pc = "upload_summary"])

ScraperUploadSummary(i) ==
    ScraperUpload(i, "upload_summary", summary_key(run[i].timestamp),
                  JsonObject(scraper_summary(run[i])), scraper_completed(run[i]))

-----------------------------------------------------------------------------
(* The four handlers on a store that starts empty.  Invocations run on      *)
(* separate Lambda instances: every request to the store is a step of its   *)
(* own, the clock moves on between any two steps, and two invocations may   *)
(* stamp their keys in the same second.                                     *)

\* One invocation of the predictor: its single read of the store and its
\* return are one step.
IdleQuery == [pc |-> "idle", event |-> None, response |-> None]

PredictorInvoke(i, events, contexts, years) ==
    /\ run[i].pc = "idle"
    /\ \E ev \in events, ctx \in contexts :
          IF log_event(ev, ctx).raised
          THEN run' = [run EXCEPT ![i] = [IdleQuery EXCEPT !.pc = "raised"]]
          ELSE \E year \in years, callOk \in BOOLEAN :
                  \E out \in predictor_lambda_handler(ev, environ, data_bucket, year,
                                                      callOk) :
                     run' = [run EXCEPT ![i] =
                                [pc |-> "returned", event |-> ev,
                                 response |-> out.response]]
    /\ UNCHANGED exceptRun

PipelineBodies == {None, InvalidJson, JsonBody(raw_data_key(1))}
PipelineEvents ==
    {[k \in {} |-> <<>>], [queryStringParameters |-> [top_n |-> <<"a", "b", "c">>]]}
PipelineAnalyses ==
    {[k \in {} |-> <<>>], [queryStringParameters |-> [type |-> "historical"]]}
\* Contexts of the invocations that precede a query: the runtime's, or none.
PipelineContexts == {LambdaContext, None}
\* The seconds the four handlers are observed over.
PipelineSeconds == {0, 1}
PipelineTick == clock + 1 \in PipelineSeconds /\ Tick

\* The seed of the one training run.
PipelineSeeds == {[seq |-> <<0>>, pos |-> 1]}
Scrapers == {"scraper", "second scraper"}
Handlers == Scrapers \cup {"trainer", "predictor", "analyzer"}

InitPipeline ==
    /\ pc = "store"
    /\ environ \in [{"S3_BUCKET", "MODEL_BUCKET"} -> BOOLEAN]
    /\ data_bucket = [k \in {} |-> None]
    /\ event = [k \in {} |-> <<>>] /\ context = LambdaContext /\ s3_call_ok = TRUE
    /\ predictions_df = DataFrame(<<>>) /\ response = None
    /\ rng = [seq |-> <<0>>, pos |-> 1]
    /\ current_year \in ClockYears
    /\ model_bucket = [k \in {} |-> None]
    /\ clock = 0
    /\ run = [h \in Handlers |->
                IF h \in Scrapers THEN IdleScraper
                ELSE IF h = "trainer" THEN IdleRun
                ELSE IF h = "predictor" THEN IdleQuery
                ELSE IdleAnalyzer]
    /\ NoTraining /\ NoPrediction /\ NoLoad /\ NoAnalysis

\* The invocations read the calendar year off one wall clock; the seconds
\* observed lie within the year current_year.  The first scraper is invoked
\* with a body; the second is the scheduled one: no body, the runtime's
\* context.
ScraperInvocation ==
    \/ ScraperInvoke("scraper", ScraperBodies \ {None}, PipelineContexts, Sites,
                     {current_year})
    \/ ScraperInvoke("second scraper", {None}, {LambdaContext}, {SiteUp}, {current_year})
ScraperRawData == \E i \in Scrapers : ScraperUploadRawData(i)
ScraperCurrentYear == \E i \in Scrapers : ScraperUploadCurrentYear(i)
ScraperSummary == \E i \in Scrapers : ScraperUploadSummary(i)
TrainerInvocation == TrainerInvokeWith("trainer", PipelineBodies, PipelineContexts)
PredictorInvocation ==
    PredictorInvoke("predictor", PipelineEvents, PipelineContexts, {current_year})
AnalyzerInvocation ==
    AnalyzerInvoke("analyzer", PipelineAnalyses, PipelineContexts, {current_year})

NextPipeline ==
    \/ PipelineTick
    \/ ScraperInvocation \/ ScraperRawData \/ ScraperCurrentYear \/ ScraperSummary
    \/ TrainerInvocation
    \/ TrainerListRawData("trainer")
    \/ TrainerDownloadAndFitWith("trainer", PipelineSeeds)
    \/ TrainerUploadModel("trainer") \/ TrainerUploadMetadata("trainer")
    \/ PredictorInvocation
    \/ AnalyzerInvocation
    \/ AnalyzerGetPredictions("analyzer") \/ AnalyzerListRawData("analyzer")
    \/ AnalyzerDownload("analyzer")

SpecPipeline == InitPipeline /\ [][NextPipeline]_vars

-----------------------------------------------------------------------------
(* Properties of the feature builder and the transition extractor *)

\* C1: every training feature vector and every inference feature vector has
\* the twelve fields of the layout, each field at its place: current points,
\* weighted points, the four position flags, age factor, experience factor,
\* RB age risk, WR age peak, years since 2019, team consistency.
C1_FeatureLayoutParity ==
    LET Layout == << "current_points", "weighted_current_points", "is_QB", "is_RB",
                     "is_WR", "is_TE", "age_factor", "experience_factor",
                     "rb_age_risk_flag", "wr_age_peak_flag", "years_since_epoch",
                     "team_consistency_flag" >>
        Field(name, points, position, age, year, team_flag) ==
            CASE name = "current_points" -> points
              [] name = "weighted_current_points" -> points * 8
              [] name = "is_QB" -> IF position = "QB" THEN 1 ELSE 0
              [] name = "is_RB" -> IF position = "RB" THEN 1 ELSE 0
              [] name = "is_WR" -> IF position = "WR" THEN 1 ELSE 0
              [] name = "is_TE" -> IF position = "TE" THEN 1 ELSE 0
              [] name = "age_factor" -> Max(0, 100 - 5 * Abs(27 - age))
              [] name = "experience_factor" -> Min(10, 2 * Max(1, age - 22))
              [] name = "rb_age_risk_flag" -> IF position = "RB" /\ age > 28 THEN 1 ELSE 0
              [] name = "wr_age_peak_flag" ->
                    IF position = "WR" /\ age >= 26 /\ age <= 32 THEN 1 ELSE 0
              [] name = "years_since_epoch" -> year - 2019
              [] name = "team_consistency_flag" -> team_flag
        Conforms(v, points, position, age, year, team_flag) ==
            /\ Len(v) = Len(Layout)
            /\ \A k \in 1..Len(Layout) :
                  v[k] = Field(Layout[k], points, position, age, year, team_flag)
    IN  /\ \A i \in 1..Len(X) :
              \E r \in 1..Len(historical_data) :
                 /\ historical_data[r].Player = player_info[i].player
                 /\ historical_data[r].Year = player_info[i].current_year
                 /\ \E team_flag \in {0, 1}, age \in 18..45 :
                       Conforms(X[i], historical_data[r].Fantasy_Points,
                                player_info[i].position, age,
                                player_info[i].current_year, team_flag)
        /\ \A i \in 1..Len(X_pred) :
              \E age \in 18..45 :
                 Conforms(X_pred[i], current_year_data[i].Fantasy_Points,
                          current_year_data[i].Position, age, current_year, 1)

\* C1 witness: an inference run over at least two rows, one of them a wide
\* receiver at peak age scored in calendar year 2025.
C1_Witness ==
    /\ pc = "predicted"
    /\ Len(X_pred) >= 2
    /\ \E i \in 1..Len(X_pred) :
          Len(X_pred[i]) = 12 /\ X_pred[i][5] = 1 /\ X_pred[i][10] = 1 /\ X_pred[i][11] = 6

\* C2: a player with n records yields no example when n < 2 and n-1 examples
\* otherwise; along a year-ascending ordering of the player's records, the
\* i-th example has the points of record i as its first feature and the
\* points of record i+1 as its label.
C2_ExamplesPerPlayer ==
    pc = "trained" =>
       /\ Len(X) = Len(y)
       /\ Len(y) = Len(player_info)
       /\ \A i \in 1..Len(player_info) :
             \E r \in 1..Len(historical_data) :
                historical_data[r].Player = player_info[i].player
       /\ \A p \in {historical_data[r].Player : r \in 1..Len(historical_data)} :
             LET rows == {r \in 1..Len(historical_data) : historical_data[r].Player = p}
                 n == Cardinality(rows)
                 ex == {i \in 1..Len(player_info) : player_info[i].player = p}
                 nth(j) == CHOOSE i \in ex : Cardinality({k \in ex : k < i}) = j - 1
             IN  /\ Cardinality(ex) = IF n < 2 THEN 0 ELSE n - 1
                 /\ n >= 2 =>
                      \E s \in [1..n -> rows] :
                         /\ \A a, b \in 1..n : a # b => s[a] # s[b]
                         /\ \A a, b \in 1..n :
                               a < b => historical_data[s[a]].Year <= historical_data[s[b]].Year
                         /\ \A j \in 1..(n - 1) :
                               /\ X[nth(j)][1] = historical_data[s[j]].Fantasy_Points
                               /\ y[nth(j)] = historical_data[s[j + 1]].Fantasy_Points

\* C2 witness: the worked example, its seasons given out of order
\* (2022: 120, 2020: 100, 2021: 150), trained to the labels 150 then 120.
C2_Witness ==
    /\ pc = "trained"
    /\ historical_data = << Rec("a", "QB", "T2", 120, 2022), Rec("a", "QB", "T1", 100, 2020),
                            Rec("a", "QB", "T1", 150, 2021) >>
    /\ y = <<150, 120>>
    /\ X[1][1] = 100 /\ X[2][1] = 150

\* C3 (as claimed): in every training example the label year is the feature
\* year plus one.
C3_LabelYearIsNextYear ==
    \A i \in 1..Len(player_info) :
       player_info[i].next_year = player_info[i].current_year + 1

-----------------------------------------------------------------------------
(* Properties of make_predictions *)

\* C5 (as claimed): a prediction record whose current points are 0 has a
\* defined Percent_Change (0 or null), never an infinity or NaN.
C5_ZeroPointsPercentDefined ==
    \A i \in 1..Len(results) :
       results[i].Current_Points = 0 =>
          \/ results[i].Percent_Change = Finite(0)
          \/ results[i].Percent_Change.kind = "null"

\* C6 (as claimed): with non-zero current points, the stored Percent_Change is
\* (Predicted_Next_Year - Current_Points) / Current_Points * 100 rounded to one
\* decimal, computed from the values stored in the same record.
C6_PercentFromStoredValues ==
    \A i \in 1..Len(results) :
       results[i].Current_Points # 0 =>
          LET stored == decimal(results[i].Predicted_Next_Year, 10)
              current == float(results[i].Current_Points)
          IN  results[i].Percent_Change =
                 Finite(round_1(float_mul(float_truediv(float_sub(stored, current), current),
                                          float(100))))

\* C6 (amended): with non-zero current points, the stored Percent_Change is
\* (p - Current_Points) / Current_Points * 100 rounded to one decimal, where p
\* is the row's variance-adjusted prediction before rounding, and the stored
\* Predicted_Next_Year is p rounded to one decimal; the arithmetic is float64
\* and the rounding numpy's.
C6_PercentFromUnroundedPrediction ==
    \A i \in 1..Len(results) :
       results[i].Current_Points # 0 =>
          LET p == predictions[results[i].index + 1]
              current == float(results[i].Current_Points)
          IN  /\ results[i].Predicted_Next_Year = rint(float_mul(p, float(10)))
              /\ results[i].Percent_Change =
                    Finite(rint(float_mul(
                              float_mul(float_truediv(float_sub(p, current), current),
                                        float(100)),
                              float(10))))

\* C6 witness: a returned record with non-zero current points whose stored
\* percentage is not the one its stored prediction gives.
C6_Witness ==
    /\ pc = "predicted"
    /\ \E i \in 1..Len(results) :
          /\ results[i].Current_Points # 0
          /\ LET stored == decimal(results[i].Predicted_Next_Year, 10)
                 current == float(results[i].Current_Points)
             IN  results[i].Percent_Change #
                    Finite(round_1(float_mul(float_truediv(float_sub(stored, current),
                                                           current),
                                             float(100))))

-----------------------------------------------------------------------------
(* Properties of the predictor query handler *)

\* The request as the handler reads it, and the persisted records it selects.
RequestTopN ==
    IF "queryStringParameters" \in DOMAIN event
          /\ "top_n" \in DOMAIN event["queryStringParameters"]
    THEN int(event["queryStringParameters"]["top_n"])
    ELSE [ok |-> TRUE, value |-> 50]
RequestPosition ==
    IF "queryStringParameters" \in DOMAIN event
          /\ "position" \in DOMAIN event["queryStringParameters"]
    THEN event["queryStringParameters"]["position"]
    ELSE <<>>
PersistedRecords ==
    IF predictions_key(current_year) \notin DOMAIN data_bucket THEN <<>>
    ELSE LET obj == data_bucket[predictions_key(current_year)]
         IN  IF obj.list THEN obj.items ELSE <<obj.item>>
SelectedRows ==
    {r \in 1..Len(PersistedRecords) :
        RequestPosition = <<>> \/ PersistedRecords[r].Position = upper(RequestPosition)}

\* C7: for N records and top_n = k with 0 < k < N (N the records selected after
\* the optional position filter, read from a configured bucket by a call that
\* went through, in the handler), make_predictions and the
\* query handler return exactly k records, the k with the largest
\* Predicted_Next_Year, in descending order of Predicted_Next_Year.
C7_TopNLargestDescending ==
    /\ (pc = "predicted" /\ 0 < top_n /\ top_n < Len(results_df)) =>
          /\ Len(results) = top_n
          /\ \A j \in 1..Len(results) : results[j] = results_df[results[j].index + 1]
          /\ \A i, j \in 1..Len(results) :
                i < j => /\ results[i].index # results[j].index
                         /\ results[i].Predicted_Next_Year >= results[j].Predicted_Next_Year
          /\ \A r \in 1..Len(results_df) :
                (\A j \in 1..Len(results) : results[j].index # r - 1) =>
                   \A j \in 1..Len(results) :
                      results_df[r].Predicted_Next_Year <= results[j].Predicted_Next_Year
    /\ (/\ pc = "responded" /\ environ.S3_BUCKET /\ s3_call_ok
        /\ RequestTopN.ok /\ 0 < RequestTopN.value
        /\ RequestTopN.value < Cardinality(SelectedRows)) =>
          /\ response.statusCode = 200
          /\ Len(response.body.predictions) = RequestTopN.value
          /\ Len(predictions_df.rows) = RequestTopN.value
          /\ \A j \in 1..Len(predictions_df.rows) :
                /\ predictions_df.rows[j].index + 1 \in SelectedRows
                /\ predictions_df.rows[j].row = PersistedRecords[predictions_df.rows[j].index + 1]
                /\ response.body.predictions[j] = predictions_df.rows[j].row
          /\ \A i, j \in 1..Len(predictions_df.rows) :
                i < j => /\ predictions_df.rows[i].index # predictions_df.rows[j].index
                         /\ predictions_df.rows[i].row.Predicted_Next_Year
                               >= predictions_df.rows[j].row.Predicted_Next_Year
          /\ \A r \in SelectedRows :
                (\A j \in 1..Len(predictions_df.rows) : predictions_df.rows[j].index # r - 1) =>
                   \A j \in 1..Len(predictions_df.rows) :
                      PersistedRecords[r].Predicted_Next_Year
                         <= predictions_df.rows[j].row.Predicted_Next_Year

\* C7 witness: make_predictions over three rows with top_n = 2 returns two
\* rows, the input's third row first, strictly above the second returned.
C7_Witness ==
    /\ pc = "predicted"
    /\ top_n = 2 /\ Len(results_df) = 3 /\ Len(results) = 2
    /\ results[1].index = 2
    /\ results[1].Predicted_Next_Year > results[2].Predicted_Next_Year

\* C8 (as claimed): a position filter that matches no record of a non-empty
\* persisted prediction set gets a 404 response.
C8_UnmatchedPositionIs404 ==
    (/\ pc = "responded"
     /\ Len(PersistedRecords) > 0
     /\ RequestPosition # <<>>
     /\ SelectedRows = {}) =>
        response.statusCode = 404

\* C8 (amended): when the handler is invoked with a context log_event can
\* print, S3_BUCKET is configured and top_n is absent or an integer literal,
\* a position filter that matches no record of a non-empty
\* persisted prediction set gets a 404 response.
C8_UnmatchedPositionIs404WhenServed ==
    (/\ pc = "responded"
     /\ environ.S3_BUCKET
     /\ RequestTopN.ok
     /\ Len(PersistedRecords) > 0
     /\ RequestPosition # <<>>
     /\ SelectedRows = {}) =>
        response.statusCode = 404

\* C8 witness: a lower-case filter for a position absent from a stored set of
\* two records is answered 404 "No players found".
C8_Witness ==
    /\ pc = "responded"
    /\ environ.S3_BUCKET /\ s3_call_ok /\ RequestTopN.ok
    /\ Len(PersistedRecords) = 2
    /\ RequestPosition = <<"k">>
    /\ SelectedRows = {}
    /\ response = create_response(404, [error |-> "No players found for position"])

\* C9 (as claimed), for requests served with the bucket configured and the
\* store answering: with a positive top_n the handler returns 404 when the
\* predictions object is missing or holds an empty list or no record matches
\* the position filter, and 200 with predictions and summary otherwise.
C9_Status404Or200 ==
    (/\ pc = "responded" /\ environ.S3_BUCKET /\ s3_call_ok
     /\ RequestTopN.ok /\ RequestTopN.value > 0) =>
        IF Len(PersistedRecords) = 0 \/ SelectedRows = {}
        THEN response.statusCode = 404
        ELSE /\ response.statusCode = 200
             /\ DOMAIN response.body = {"predictions", "summary", "note"}
             /\ Len(response.body.predictions) > 0

-----------------------------------------------------------------------------
(* Properties of the trainer over the store *)

\* C4 (as claimed): an invocation whose historical data yields zero training
\* examples (no player of the downloaded records has two of them) returns
\* the error "No valid training data found", and no step of an invocation
\* without examples changes either bucket: no model artifact, no metadata
\* object and no latest pointer is written by it.
C4_ZeroExamplesNothingPersisted ==
    /\ [](\A i \in Instances :
             (run[i].records # -1) =>
                LET data == data_bucket[run[i].key].items
                    seasons(p) == {r \in 1..Len(data) : data[r].Player = p}
                    no_pair == \A r \in 1..Len(data) :
                                  Cardinality(seasons(data[r].Player)) < 2
                IN  no_pair =>
                       /\ run[i].pc = "returned"
                       /\ run[i].response =
                             create_response(500, [error |-> "No valid training data found"]))
    /\ [][\A i \in Instances :
             (run'[i] # run[i] /\ (model_bucket' # model_bucket \/ data_bucket' # data_bucket))
                => run[i].samples > 0]_vars

\* C10: whenever latest_model.json is in the model bucket, the model key and
\* the metadata key it holds name objects of the bucket; a step that writes
\* the pointer finds both objects already there; and an invocation that
\* returns 200 leaves the pointer holding the keys of the artifact and the
\* metadata it wrote.  Any call to the store may fail.
C10_LatestPointerReferencesStoredArtifact ==
    /\ [](latest_model_key \in DOMAIN model_bucket =>
             /\ model_bucket[latest_model_key].latest_model_key \in DOMAIN model_bucket
             /\ model_bucket[latest_model_key].latest_metadata_key \in DOMAIN model_bucket)
    /\ [][(/\ latest_model_key \in DOMAIN model_bucket'
           /\ \/ latest_model_key \notin DOMAIN model_bucket
              \/ model_bucket'[latest_model_key] # model_bucket[latest_model_key]) =>
             /\ model_bucket'[latest_model_key].latest_model_key \in DOMAIN model_bucket
             /\ model_bucket'[latest_model_key].latest_metadata_key \in DOMAIN model_bucket]_vars
    /\ [][\A i \in Instances :
             (/\ run[i].pc # "returned" /\ run'[i].pc = "returned"
              /\ run'[i].response.statusCode = 200) =>
                /\ latest_model_key \in DOMAIN model_bucket'
                /\ model_bucket'[latest_model_key] =
                      [latest_model_key |-> run'[i].response.body.model_info.model_key,
                       latest_metadata_key |-> run'[i].response.body.model_info.metadata_key,
                       last_updated |-> run[i].timestamp]
                /\ run'[i].response.body.model_info.model_key = model_key(run[i].timestamp)
                /\ run'[i].response.body.model_info.metadata_key
                      = metadata_key(run[i].timestamp)
                /\ {model_key(run[i].timestamp), metadata_key(run[i].timestamp)}
                      \subseteq DOMAIN model_bucket]_vars

\* C10 witness: one invocation completed and the pointer names its keys,
\* while another, stamped a different second, failed after its model upload
\* and left a model object without metadata.
C10_Witness ==
    \E i, j \in Instances :
       /\ run[i].pc = "returned" /\ run[i].response.statusCode = 200
       /\ latest_model_key \in DOMAIN model_bucket
       /\ model_bucket[latest_model_key] = latest_model_ref(run[i].timestamp)
       /\ run[j].pc = "returned" /\ run[j].response = create_response(500, [error |-> "ClientError"])
       /\ run[j].timestamp # run[i].timestamp
       /\ model_key(run[j].timestamp) \in DOMAIN model_bucket
       /\ metadata_key(run[j].timestamp) \notin DOMAIN model_bucket

\* C11 (as claimed): no training invocation writes under a model key or a
\* metadata key that already holds an object, so a persisted artifact is
\* never overwritten, also when two invocations are stamped the same second.
C11_ArtifactNeverOverwritten ==
    [][\A i \in Instances :
          /\ (run[i].pc = "upload_model" /\ run'[i].pc = "upload_metadata") =>
                model_key(run[i].timestamp) \notin DOMAIN model_bucket
          /\ (run[i].pc = "upload_metadata" /\ run'[i].pc = "upload_latest") =>
                metadata_key(run[i].timestamp) \notin DOMAIN model_bucket]_vars

\* The seconds for which the bucket holds both a model and its metadata.
PersistedArtifacts ==
    {t \in 0..MaxClock :
        model_key(t) \in DOMAIN model_bucket /\ metadata_key(t) \in DOMAIN model_bucket}
AllCompleted == \A i \in Instances : run[i].pc = "returned" /\ run[i].response.statusCode = 200

\* C12 (as claimed): once every concurrent invocation has completed, the
\* latest pointer names the persisted artifact with the greatest timestamp.
C12_LatestIsGreatestTimestamp ==
    AllCompleted =>
       /\ latest_model_key \in DOMAIN model_bucket
       /\ \A t \in PersistedArtifacts : t <= model_bucket[latest_model_key].last_updated

\* C12 (amended): the pointer is last-writer-wins.  Every step that changes
\* it is the pointer upload of one invocation and leaves the pointer naming
\* that invocation's model key, metadata key and timestamp, whatever it named
\* before; so once every invocation has completed the pointer names the
\* artifact of an invocation that returned 200, the one whose pointer upload
\* came last, not necessarily the one with the greatest timestamp.
C12_LatestIsLastWriter ==
    /\ [][\A i \in Instances :
             (run[i].pc = "upload_latest" /\ run'[i].pc = "returned"
                 /\ run'[i].response.statusCode = 200) =>
                /\ latest_model_key \in DOMAIN model_bucket'
                /\ model_bucket'[latest_model_key].last_updated = run[i].timestamp
                /\ model_bucket'[latest_model_key].latest_model_key = model_key(run[i].timestamp)
                /\ model_bucket'[latest_model_key].latest_metadata_key
                      = metadata_key(run[i].timestamp)]_vars
    /\ [][(/\ latest_model_key \in DOMAIN model_bucket
           /\ model_bucket'[latest_model_key] # model_bucket[latest_model_key]) =>
             \E i \in Instances :
                /\ run[i].pc = "upload_latest" /\ run'[i].pc = "returned"
                /\ run'[i].response.statusCode = 200]_vars
    /\ [](AllCompleted =>
             /\ latest_model_key \in DOMAIN model_bucket
             /\ \E i \in Instances :
                   model_bucket[latest_model_key].last_updated = run[i].timestamp)

\* C12 witness: both invocations completed, stamped different seconds, and
\* the pointer names the earlier of the two artifacts.
C12_Witness ==
    /\ AllCompleted
    /\ \E i, j \in Instances :
          /\ run[i].timestamp < run[j].timestamp
          /\ {run[i].timestamp, run[j].timestamp} \subseteq PersistedArtifacts
          /\ model_bucket[latest_model_key] = latest_model_ref(run[i].timestamp)

-----------------------------------------------------------------------------
(* Properties of load_latest_model *)

\* C13: when the read of latest_model.json finds no object in the model
\* bucket, or the read of the model key it holds finds no object there,
\* load_latest_model returns (None, None): no model comes back, stale or
\* otherwise.
C13_NoPointerOrNoModelLoadsNothing ==
    [][ /\ (pc = "load" /\ pc' # "load" /\ latest_model_key \notin DOMAIN model_bucket)
           => (pc' = "loaded" /\ loaded' = <<None, None>>)
        /\ (pc = "load_model" /\ pc' = "loaded"
              /\ loaded[2].latest_model_key \notin DOMAIN model_bucket)
           => loaded' = <<None, None>> ]_vars

\* C13 witness: the pointer names a model key without an object while an
\* older model object is still in the bucket, and nothing is loaded.
C13_Witness ==
    /\ pc = "loaded"
    /\ latest_model_key \in DOMAIN model_bucket
    /\ model_bucket[latest_model_key] = latest_model_ref(2)
    /\ model_key(2) \notin DOMAIN model_bucket
    /\ model_key(1) \in DOMAIN model_bucket
    /\ loaded = <<None, None>>

-----------------------------------------------------------------------------
(* Properties of the attribute estimator and the age-derived fields *)

\* C14 (as claimed): the years_since_epoch field of every inference vector is
\* the season year of the record it was built from, minus 2019.
C14_InferenceYearIsRecordYear ==
    \A i \in 1..Len(X_pred) :
       X_pred[i][11] = current_year_data[i].Year - 2019

\* C15: every age the estimator returns lies in the half-open interval of
\* the position (QB [25,35), RB [22,28), WR [23,30), TE [23,29), any other
\* [24,29)) and the experience returned with it is max(1, age - 22), so at
\* least 1: for each scored row, and for each training example through the
\* fields its age and experience determine.
C15_AgeInRangeExperienceFromAge ==
    LET Low(position) ==
            CASE position = "QB" -> 25 [] position = "RB" -> 22 [] position = "WR" -> 23
              [] position = "TE" -> 23 [] OTHER -> 24
        High(position) ==
            CASE position = "QB" -> 35 [] position = "RB" -> 28 [] position = "WR" -> 30
              [] position = "TE" -> 29 [] OTHER -> 29
    IN  /\ \A i \in 1..Len(results_df) :
              /\ results_df[i].Age >= Low(results_df[i].Position)
              /\ results_df[i].Age < High(results_df[i].Position)
              /\ results_df[i].Experience = Max(1, results_df[i].Age - 22)
              /\ results_df[i].Experience >= 1
        /\ \A i \in 1..Len(X) :
              \E age \in Low(player_info[i].position)..(High(player_info[i].position) - 1) :
                 /\ X[i][7] = Max(0, 100 - 5 * Abs(27 - age))
                 /\ X[i][8] = Min(10, 2 * Max(1, age - 22))
                 /\ X[i][9] = (IF player_info[i].position = "RB" /\ age > 28 THEN 1 ELSE 0)
                 /\ X[i][10] = (IF player_info[i].position = "WR" /\ age >= 26 /\ age <= 32
                                THEN 1 ELSE 0)

\* C15 witness: a running back scored with the greatest age of his interval,
\* 27, and a kicker (no interval of his own) aged within [24,29).
C15_Witness ==
    /\ pc = "predicted"
    /\ \E i, j \in 1..Len(results_df) :
          /\ results_df[i].Position = "RB" /\ results_df[i].Age = 27
          /\ results_df[i].Experience = 5
          /\ results_df[j].Position = "K" /\ results_df[j].Age \in 24..28

\* C16: for every position and every age the estimator can return for it,
\* age_factor lies in [0, 1] (0..100 hundredths), is 1 exactly at age 27 and
\* strictly below 1 at every other age; so it is in every scored row.
C16_AgeFactorPeaksAt27 ==
    pc = "predicted" =>
       /\ \A position \in {"QB", "RB", "WR", "TE", "K"} :
             \A age \in age_ranges(position)[1]..(age_ranges(position)[2] - 1) :
                /\ age_factor(age) >= 0 /\ age_factor(age) <= 100
                /\ age_factor(age) = 100 <=> age = 27
       /\ \A i \in 1..Len(X_pred) :
             /\ X_pred[i][7] >= 0 /\ X_pred[i][7] <= 100
             /\ X_pred[i][7] = 100 <=> results_df[i].Age = 27

\* C16 witness: two scored rows, one aged 27 with factor 1, one of another
\* age with a smaller factor.
C16_Witness ==
    /\ pc = "predicted"
    /\ \E i, j \in 1..Len(X_pred) :
          /\ results_df[i].Age = 27 /\ X_pred[i][7] = 100
          /\ results_df[j].Age # 27 /\ X_pred[j][7] < 100

\* C20: for every player with at least two seasons, all of the player's
\* examples carry one position, that of a record with the player's greatest
\* year, in the provenance, in the one-hot fields and in the
\* position-conditioned age flags, whatever position earlier records carry.
C20_PositionOfLatestSeason ==
    pc = "trained" =>
       \A p \in {historical_data[r].Player : r \in 1..Len(historical_data)} :
          LET rows == {r \in 1..Len(historical_data) : historical_data[r].Player = p}
              latest == {r \in rows :
                            \A q \in rows : historical_data[q].Year <= historical_data[r].Year}
              ex == {i \in 1..Len(player_info) : player_info[i].player = p}
          IN  Cardinality(rows) >= 2 =>
                 /\ ex # {}
                 /\ \E r \in latest :
                       \A i \in ex :
                          LET position == historical_data[r].Position
                          IN  /\ player_info[i].position = position
                              /\ X[i][3] = (IF position = "QB" THEN 1 ELSE 0)
                              /\ X[i][4] = (IF position = "RB" THEN 1 ELSE 0)
                              /\ X[i][5] = (IF position = "WR" THEN 1 ELSE 0)
                              /\ X[i][6] = (IF position = "TE" THEN 1 ELSE 0)
                              /\ X[i][9] = 1 => position = "RB"
                              /\ X[i][10] = 1 => position = "WR"

\* C20 witness: a player recorded as RB in 2020 (twice) and as WR in 2022,
\* the 2022 record given first; both examples are wide-receiver examples,
\* the first built from an RB season.
C20_Witness ==
    /\ pc = "trained"
    /\ historical_data = << Rec("b", "WR", "T1", 0, 2022), Rec("b", "RB", "T1", 53, 2020),
                            Rec("b", "RB", "T2", 80, 2020) >>
    /\ Len(X) = 2
    /\ \A i \in 1..2 : player_info[i].position = "WR" /\ X[i][5] = 1 /\ X[i][4] = 0
    /\ player_info[1].current_year = 2020

\* C17: feature construction draws the age anew on every call: the age of
\* the i-th scored row comes from the i-th variate of the generator's stream,
\* so two rows holding the same season record and position agree in every
\* field outside the age-derived ones (7 to 10) and may differ in those.
C17_AgeDrawnAnewPerCall ==
    pc = "predicted" =>
       /\ \A i \in 1..Len(X_pred) :
             LET u == rng.seq[((i - 1) % Len(rng.seq)) + 1]
                 position == current_year_data[i].Position
                 low == CASE position = "QB" -> 25 [] position = "RB" -> 22
                          [] position = "WR" -> 23 [] position = "TE" -> 23 [] OTHER -> 24
                 high == CASE position = "QB" -> 35 [] position = "RB" -> 28
                           [] position = "WR" -> 30 [] position = "TE" -> 29 [] OTHER -> 29
             IN  results_df[i].Age = low + ((high - low) * u) \div Resolution
       /\ \A i, j \in 1..Len(X_pred) :
             current_year_data[i] = current_year_data[j] =>
                \A k \in (1..12) \ {7, 8, 9, 10} : X_pred[i][k] = X_pred[j][k]

\* C17 witness: one batch holds the same record twice and the two vectors
\* differ in age_factor and experience_factor.
C17_Witness ==
    /\ pc = "predicted"
    /\ \E i, j \in 1..Len(X_pred) :
          /\ current_year_data[i] = current_year_data[j]
          /\ X_pred[i][7] # X_pred[j][7]
          /\ X_pred[i][8] # X_pred[j][8]
          /\ results_df[i].Age # results_df[j].Age

-----------------------------------------------------------------------------
(* Failures as values *)

\* C18 (as claimed): for every event and context and whatever the outcome of
\* each external call, a handler invocation that has ended has returned a
\* response carrying a status code; no exception escapes the handler.
C18_HandlersAlwaysRespond ==
    /\ pc \in {"responded", "raised"} =>
          /\ pc = "responded"
          /\ "statusCode" \in DOMAIN response
    /\ \A h \in DOMAIN run :
          run[h].pc \in {"returned", "raised"} =>
             /\ run[h].pc = "returned"
             /\ "statusCode" \in DOMAIN run[h].response

-----------------------------------------------------------------------------
(* Empty inputs *)

\* C19: on an empty input set analyze_predictions and analyze_historical_data
\* return an empty mapping, generate_insights returns an empty list when both
\* of its inputs are empty, and make_predictions returns an empty prediction
\* set when given zero records.
C19_EmptyInEmptyOut ==
    /\ pc = "analyzed" =>
          /\ empty(analyzer_predictions_df) =>
                DOMAIN analysis_results.predictions_analysis = {}
          /\ empty(historical_df) =>
                DOMAIN analysis_results.historical_analysis = {}
          /\ empty(analyzer_predictions_df) /\ empty(historical_df) =>
                Len(analysis_results.insights) = 0
    /\ pc = "predicted" /\ Len(current_year_data) = 0 => Len(results) = 0

\* C19 witness: the aggregator has run on two empty frames and returned two
\* empty mappings and an empty list.
C19_Witness ==
    /\ pc = "analyzed"
    /\ empty(analyzer_predictions_df) /\ empty(historical_df)
    /\ DOMAIN analysis_results.predictions_analysis = {}
    /\ DOMAIN analysis_results.historical_analysis = {}
    /\ analysis_results.insights = <<>>

-----------------------------------------------------------------------------
(* Properties of the variance adjustment *)

\* The float64 bounds 1 - v and 1 + v of a variance v in thousandths, the
\* factors uniform returns between them, and the products of the pool's raw
\* predictions with those factors, each evaluated once.
VarianceBand ==
    [v \in {150, 200, 250, 300} |->
        LET low == float_sub(float(1), decimal(v, 1000))
            high == float_add(float(1), decimal(v, 1000))
        IN  [low |-> low, high |-> high,
             factors |-> {uniform(low, high, u) : u \in Variates}]]
FactorProducts ==
    [k \in {<<raw, m>> : raw \in PoolPredictions,
                         m \in UNION {VarianceBand[v].factors : v \in DOMAIN VarianceBand}} |->
        float_mul(k[1], k[2])]

\* C21: for every record make_predictions scores, the adjusted prediction
\* (before rounding) is the raw model prediction times a factor m with
\* 1 - v <= m <= 1 + v, where v is 0.15 for QB, 0.25 for RB, 0.20 for WR,
\* 0.30 for TE and 0.20 for any other position, v taken from the record's
\* own position.  Bounds, factor and product are float64, v in thousandths.
C21_VarianceFactorByPosition ==
    LET v(pos) == IF pos = "QB" THEN 150
                  ELSE IF pos = "RB" THEN 250
                  ELSE IF pos = "TE" THEN 300
                  ELSE 200
    IN  pc = "predicted" =>
           /\ Len(predictions) = Len(current_year_data)
           /\ \A i \in 1..Len(current_year_data) :
                 LET raw == predict(model, X_pred[i])
                     band == VarianceBand[v(current_year_data[i].Position)]
                 IN  IF raw = Zero THEN predictions[i] = Zero
                     ELSE /\ raw.sign > 0
                          /\ \E m \in band.factors :
                                /\ float_cmp(band.low, m) <= 0
                                /\ float_cmp(m, band.high) <= 0
                                /\ predictions[i] =
                                      cached(FactorProducts, <<raw, m>>, float_mul(raw, m))

\* C21 witness: a batch with a quarterback and a running back, each scaled by
\* a factor other than one, the running back's outside the quarterback's range.
C21_Witness ==
    /\ pc = "predicted"
    /\ \E i, j \in 1..Len(current_year_data) :
          /\ current_year_data[i].Position = "QB"
          /\ current_year_data[j].Position = "RB"
          /\ predict(model, X_pred[i]).sign > 0
          /\ predictions[i] # predict(model, X_pred[i])
          /\ predict(model, X_pred[j]).sign > 0
          /\ float_cmp(predictions[j],
                       float_mul(predict(model, X_pred[j]), decimal(115, 100))) > 0

-----------------------------------------------------------------------------
(* Properties of the age-derived flags *)

\* C22: in every feature vector of the training path and of the inference
\* path rb_age_risk_flag (field 9) is 0: the estimator returns ages 22..27
\* for a running back and the flag asks for an age above 28.
C22_RbAgeRiskFlagNeverSet ==
    /\ pc = "trained" => \A k \in 1..Len(X) : X[k][9] = 0
    /\ pc = "predicted" => \A i \in 1..Len(X_pred) : X_pred[i][9] = 0

\* C22 witness: a training example of a running back given the oldest age the
\* estimator returns for the position (27, where age_factor is 1), flag 0.
C22_Witness ==
    /\ pc = "trained"
    /\ \E k \in 1..Len(X) :
          /\ X[k][4] = 1
          /\ X[k][7] = 100
          /\ X[k][8] = 10
          /\ X[k][9] = 0

\* C23: within one run of prepare_training_data the age is drawn once per
\* player: all examples of one player carry the same age_factor,
\* experience_factor, rb_age_risk_flag and wr_age_peak_flag (fields 7 to 10).
C23_AgeDrawnOncePerPlayer ==
    pc = "trained" =>
       \A k, l \in 1..Len(X) :
          player_info[k].player = player_info[l].player =>
             \A f \in 7..10 : X[k][f] = X[l][f]

\* C23 witness: a player with two examples that share the age-derived fields
\* while the generator's next variate would have given another age.
C23_Witness ==
    /\ pc = "trained"
    /\ \E k, l \in 1..Len(X) :
          /\ k # l
          /\ player_info[k].player = player_info[l].player
          /\ X[k][7] = X[l][7] /\ X[k][8] = X[l][8]
          /\ age_factor(scrape_player_details(player_info[k].player,
                                              player_info[k].position,
                                              Draw(rng)).age) # X[k][7]

\* C24: under any interleaving of training invocations, the model key and
\* the metadata key held by the pointer carry the same timestamp: the
\* pointer never pairs one run's model with another run's metadata.
C24_PointerKeysOfOneRun ==
    latest_model_key \in DOMAIN model_bucket =>
       LET ref == model_bucket[latest_model_key]
       IN  \E timestamp \in 0..MaxClock :
              /\ ref.latest_model_key = model_key(timestamp)
              /\ ref.latest_metadata_key = metadata_key(timestamp)
              /\ ref.last_updated = timestamp

\* C24 witness: the pointer holds the keys of one invocation while another,
\* stamped a different second, has uploaded its model and its metadata and
\* is about to write the pointer.
C24_Witness ==
    \E i, j \in Instances :
       /\ run[i].pc = "returned" /\ run[i].response.statusCode = 200
       /\ run[j].pc = "upload_latest"
       /\ run[j].timestamp # run[i].timestamp
       /\ {model_key(run[j].timestamp), metadata_key(run[j].timestamp)}
             \subseteq DOMAIN model_bucket
       /\ latest_model_key \in DOMAIN model_bucket
       /\ model_bucket[latest_model_key].latest_model_key = model_key(run[i].timestamp)
       /\ model_bucket[latest_model_key].latest_metadata_key
             = metadata_key(run[i].timestamp)

-----------------------------------------------------------------------------
(* Properties of the analyzer handler *)

\* C26 (as claimed): for analysis type 'all' or 'insights' and every content
\* of the store, generate_insights is invoked with an empty prediction frame
\* and an empty historical frame, and the 'insights' entry of the response
\* is the empty list.
C26_InsightsAlwaysEmpty ==
    (/\ pc = "analyzer"
     /\ run["analyzer"].pc = "returned"
     /\ environ.S3_BUCKET /\ environ.MODEL_BUCKET
     /\ run["analyzer"].analysis_type \in {"all", "insights"}) =>
       /\ empty(run["analyzer"].predictions_df) /\ empty(run["analyzer"].historical_df)
       /\ "insights" \in DOMAIN run["analyzer"].response.body
       /\ run["analyzer"].response.body["insights"] = <<>>

-----------------------------------------------------------------------------
(* Properties of the four handlers on one store *)

\* C25 (as claimed): starting from an empty store, after any sequence of
\* scraper, trainer, predictor and analyzer invocations no predictions
\* object exists, and every predictor query returns 404 'No predictions
\* found'.
C25_EveryQueryIs404 ==
    /\ \A year \in ClockYears :
          predictions_key(year) \notin DOMAIN data_bucket \cup DOMAIN model_bucket
    /\ run["predictor"].pc \in {"returned", "raised"} =>
          run["predictor"].response
             = create_response(404, [error |-> "No predictions found"])

\* C25 (amended): no handler writes a predictions object, so at every point
\* of every interleaving of the handlers' requests a predictor query that
\* gets as far as reading it (a context log_event can print, S3_BUCKET
\* configured, top_n absent or an integer literal) returns 404 'No predictions found'; the other queries end in a 500
\* response or raise.
C25_EveryServedQueryIs404 ==
    LET query == run["predictor"]
        query_params == get(query.event, "queryStringParameters", EmptyDict)
        served == /\ environ.S3_BUCKET
                  /\ "top_n" \in DOMAIN query_params => int(query_params["top_n"]).ok
    IN  /\ \A year \in ClockYears :
              predictions_key(year) \notin DOMAIN data_bucket \cup DOMAIN model_bucket
        /\ query.pc = "raised" => query.response = None
        /\ query.pc = "returned" =>
              IF served
              THEN query.response
                      = create_response(404, [error |-> "No predictions found"])
              ELSE query.response.statusCode = 500

\* C25 witness: a scrape has completed (raw data, the current season's
\* records and the summary are stored), a training run on the scraped
\* seasons has stored its model, and a predictor query is answered 404.
C25_Witness ==
    /\ run["predictor"].pc = "returned"
    /\ run["predictor"].response
          = create_response(404, [error |-> "No predictions found"])
    /\ \E i \in Scrapers :
          /\ run[i].pc = "returned" /\ run[i].response.statusCode = 200
          /\ run[i].response.body.summary.s3_keys.raw_data \in DOMAIN data_bucket
    /\ current_data_key(current_year) \in DOMAIN data_bucket
    /\ run["trainer"].pc = "returned"
    /\ model_key(run["trainer"].timestamp) \in DOMAIN model_bucket

====
